---- MODULE Spec2Model ----
(***************************************************************************)
(* Enrollment progress / completion / certificate issuance of the LMS     *)
(* backend (enrollments/views.py, enrollments/cart_views.py,              *)
(* enrollments/models.py, courses/teacher_views.py).                      *)
(*                                                                         *)
(* The relational store is modelled as one set of rows per table; the     *)
(* unique_together constraints of the models are enforced by the insert   *)
(* guards, an insert that violates one is Django's IntegrityError (an     *)
(* unhandled 500 response).                                                *)
(***************************************************************************)
EXTENDS Integers, FiniteSets, Sequences, TLC

\* ------------------------------------------------------------------ bounds
MaxLessons == 3          \* lesson ids ever handed out by the catalog
MaxEnrollmentIds == 2    \* Enrollment rows ever inserted
MaxCertificateIds == 2   \* Certificate rows ever inserted
MaxCartItemIds == 1      \* CartItem rows ever inserted
MaxQuestions == 2        \* questions of quiz q1
MaxAnswers == 2          \* answers in one quiz submission
MaxAttempts == 2         \* StudentQuizAttempt rows ever inserted

\* ---------------------------------------------------------------- universe
Students == {"s1"}
Teachers == {"t1", "t2"}
Users == Students \cup Teachers
Courses == {"c1", "c2"}
Sections == {"c1a", "c2a"}
Modes == {"audit", "paid"}
LessonIds == 1..MaxLessons

role(u) == IF u \in Teachers THEN "teacher" ELSE "student"
courseTeacher(c) == "t1"
coursePrice(c) == IF c = "c1" THEN 10 ELSE 0
sectionCourse(sec) == IF sec = "c2a" THEN "c2" ELSE "c1"


\* the published quizzes: q1 and q2 belong to course c1, q3 has no
\* question; question q of a quiz is worth q points, its choices are
\* 2q - 1 (the correct one) and 2q
Quizzes == {"q1", "q2", "q3"}
quizCourse(quiz) == "c1"
questionQuiz(q) == IF q = MaxQuestions + 1 THEN "q2" ELSE "q1"
QuestionsOf(quiz) ==
    {q \in 1..(MaxQuestions + 1) : questionQuiz(q) = quiz}
questionPoints(q) == q
choiceIsCorrect(ch) == ch % 2 = 1
ChoicesOf(q) == {2 * q - 1, 2 * q}

None == "none"

VARIABLES
    lessons,            \* table lessons: rows [id, section]
    enrollments,        \* table enrollments
    lesson_progresses,  \* table lesson_progresses
    certificates,       \* table certificates
    payments,           \* table payments
    cart_items,         \* table cart_items
    next_lesson_id,     \* auto-increment primary keys
    next_enrollment_id,
    next_certificate_id,
    next_payment_id,
    next_cart_item_id,
    now,                \* timezone.now() as read by complete-lesson
    resp,               \* the response of the most recent request
    reqs,               \* per worker: the request it is executing
    started,            \* requests begun by the workers so far
    student_quiz_attempts,  \* table student_quiz_attempts, each row with
                            \* its student_answers rows
    next_attempt_id

vars == <<lessons, enrollments, lesson_progresses, certificates, payments,
          cart_items, next_lesson_id, next_enrollment_id,
          next_certificate_id, next_payment_id, next_cart_item_id, now,
          resp, reqs, started, student_quiz_attempts, next_attempt_id>>

quizVars == <<student_quiz_attempts, next_attempt_id>>

\* ------------------------------------------------------------ query helpers
\* Lesson.objects.filter(section__course=course)
LessonsOfCourse(c) == {l \in lessons : sectionCourse(l.section) = c}

\* Enrollment.objects.filter(student=u, course=c)
EnrollmentsOf(u, c) == {e \in enrollments : e.student = u /\ e.course = c}

\* LessonProgress.objects.filter(enrollment=e, is_completed=True)
CompletedOf(eid) ==
    {lp \in lesson_progresses : lp.enrollment = eid /\ lp.is_completed}

\* a lookup that never finds the certificate
CertificatesOf_none(u, c) == {}

\* Certificate.objects.filter(user=u, course=c)
CertificatesOf(u, c) == {k \in certificates : k.user = u /\ k.course = c}

\* int(a / b) of Python for b > 0: true division, then truncation toward 0
IntOfQuotient(a, b) == IF a >= 0 THEN a \div b ELSE -((-a) \div b)

ProgressPercent_round(completed_lessons, total_lessons) ==
    IF total_lessons > 0
    THEN (completed_lessons * 200 + total_lessons) \div (2 * total_lessons)
    ELSE 0

ProgressPercent_remaining(completed_lessons, total_lessons) ==
    IF total_lessons > 0
    THEN IntOfQuotient((total_lessons - completed_lessons) * 100,
                       total_lessons)
    ELSE 0

\* views.py 129-132
ProgressPercent(completed_lessons, total_lessons) ==
    IF total_lessons > 0
    THEN IntOfQuotient(completed_lessons * 100, total_lessons)
    ELSE 0

\* resp echoes the request (op, user, course, lesson, mode) and holds the
\* response body; was_completed records which branch of views.py 114 ran
NoResp == [op |-> "none", user |-> None, course |-> None, lesson |-> 0,
           mode |-> None, status |-> 0, detail |-> "",
           completed |-> FALSE, was_completed |-> FALSE,
           progress_percent |-> 0,
           certificate_id |-> 0, certificate_code |-> 0,
           enrolled_courses |-> <<>>, already_owned_courses |-> <<>>,
           total_points |-> 0, obtained_points |-> 0,
           correct_answers |-> 0, total_questions |-> 0]

Response(op, u, c, l, status, detail) ==
    [NoResp EXCEPT !.op = op, !.user = u, !.course = c, !.lesson = l,
                   !.status = status, !.detail = detail]

PurchaseResponse(u, c, mode, status, detail) ==
    [Response("purchase", u, c, 0, status, detail) EXCEPT !.mode = mode]

\* a worker that is between requests
Workers == {"w1", "w2"}
NoRow == [id |-> 0]
IdleReq == [op |-> "idle", pc |-> "idle", user |-> None, course |-> None,
            lesson |-> 0, mode |-> None, enrollment |-> NoRow,
            lesson_progress |-> NoRow, was_completed |-> FALSE, n |-> 0,
            item_ids |-> {}, items |-> <<>>, k |-> 0,
            created |-> <<>>, skipped |-> <<>>]

\* -------------------------------------------------------------------- Init
Init ==
    /\ lessons = {}
    /\ enrollments = {}
    /\ lesson_progresses = {}
    /\ certificates = {}
    /\ payments = {}
    /\ cart_items = {}
    /\ student_quiz_attempts = {}
    /\ next_attempt_id = 1
    /\ next_lesson_id = 1
    /\ next_enrollment_id = 1
    /\ next_certificate_id = 1
    /\ next_payment_id = 1
    /\ next_cart_item_id = 1
    /\ now = 1
    /\ resp = NoResp
    /\ reqs = [w \in Workers |-> IdleReq]
    /\ started = 0

\* ------------------------------------------------------- table operations
\* Enrollment(...) with the model's field defaults (models.py 24-32)
NewEnrollment(id, u, c, etype, price) ==
    [id |-> id, student |-> u, course |-> c, enrollment_type |-> etype,
     price_paid |-> price, progress_percent |-> 0,
     granted_certificate |-> FALSE, created_at |-> id]

\* a table without the unique constraint
EnrollmentInsertAllowed_always(tbl, u, c) == TRUE

\* unique_together = ['student', 'course'] (models.py 36)
EnrollmentInsertAllowed(tbl, u, c) ==
    ~ \E e \in tbl : e.student = u /\ e.course = c

\* a table without the unique constraint
CertificateInsertAllowed_always(tbl, u, c) == TRUE

\* unique_together = ['user', 'course'] (models.py 91)
CertificateInsertAllowed(tbl, u, c) ==
    ~ \E k \in tbl : k.user = u /\ k.course = c

\* Payment.objects.create(...) (models.py 133-199)
NewPayment(id, u, c, eid, amount, source) ==
    [id |-> id, user |-> u, course |-> c, enrollment |-> eid,
     amount |-> amount, status |-> "succeeded", source |-> source]

\* LessonProgress defaults of get_or_create (views.py 107-111)
NewLessonProgress(eid, l) ==
    [enrollment |-> eid, lesson |-> l, is_completed |-> FALSE,
     completed_at |-> 0]

\* ------------------------------------------------ POST courses/<id>/enroll/
Enroll(u, c) ==
    /\ (EnrollmentInsertAllowed(enrollments, u, c))
          => next_enrollment_id <= MaxEnrollmentIds
    /\ IF EnrollmentInsertAllowed(enrollments, u, c)
       THEN /\ enrollments' = enrollments \cup
                  {NewEnrollment(next_enrollment_id, u, c, "audit", 0)}
            /\ next_enrollment_id' = next_enrollment_id + 1
            /\ resp' = Response("enroll", u, c, 0, 201, "")
       ELSE /\ resp' = Response("enroll", u, c, 0, 400,
                           "You are already enrolled in this course.")
            /\ UNCHANGED <<enrollments, next_enrollment_id>>
    /\ UNCHANGED <<lessons, lesson_progresses, certificates, payments,
                   cart_items, next_lesson_id, next_certificate_id,
                   next_payment_id, next_cart_item_id, now>>
    /\ UNCHANGED <<reqs, started, quizVars>>

PriceOf_zero(c) == 0

\* course.price or 0
PriceOf(c) == IF coursePrice(c) # 0 THEN coursePrice(c) ELSE 0

\* the decision table without its first row
PurchaseCase_noA(existing_type, mode) ==
    IF existing_type = "audit" /\ mode = "paid" THEN "b"
    ELSE IF mode = "audit" /\ existing_type = None THEN "c"
    ELSE IF mode = "paid" /\ existing_type = None THEN "d"
    ELSE "fallback"

\* views.py 497-570: which case answers a request of the given mode, given
\* the enrollment_type of the existing enrollment (None when there is none)
PurchaseCase(existing_type, mode) ==
    IF existing_type = "paid" THEN "a"
    ELSE IF existing_type = "audit" /\ mode = "paid" THEN "b"
    ELSE IF mode = "audit" /\ existing_type = None THEN "c"
    ELSE IF mode = "paid" /\ existing_type = None THEN "d"
    ELSE "fallback"

\* an upgrade that starts the row over
Upgraded_fresh(existing, price) ==
    [existing EXCEPT !.enrollment_type = "paid", !.price_paid = price,
                     !.progress_percent = 0]

\* views.py 507-508: the two assignments to the loaded instance
Upgraded(existing, price) ==
    [existing EXCEPT !.enrollment_type = "paid", !.price_paid = price]

\* ---------------------------------------------- POST courses/<id>/purchase/
Purchase(u, c, mode) ==
    LET existing == EnrollmentsOf(u, c)
        ex == CHOOSE e \in existing : TRUE
        case == PurchaseCase(IF existing = {} THEN None
                             ELSE ex.enrollment_type, mode)
        price == PriceOf(c)
        unchangedDb == UNCHANGED <<enrollments, payments, next_enrollment_id,
                                   next_payment_id>>
    IN
    /\ (role(u) = "student" /\ courseTeacher(c) # u /\ existing = {})
          => next_enrollment_id <= MaxEnrollmentIds
    /\ IF role(u) # "student"
       THEN /\ resp' = PurchaseResponse(u, c, mode, 403,
                                "Only students can purchase courses.")
            /\ unchangedDb
       ELSE IF courseTeacher(c) = u
       THEN /\ resp' = PurchaseResponse(u, c, mode, 400,
                                "You cannot purchase your own course.")
            /\ unchangedDb
       ELSE IF case = "a"
       THEN /\ resp' = PurchaseResponse(u, c, mode, 200, "Already purchased")
            /\ unchangedDb
       ELSE IF case = "b"
       THEN /\ enrollments' = (enrollments \ {ex}) \cup
                  {Upgraded(ex, price)}
            /\ payments' = payments \cup
                  {NewPayment(next_payment_id, u, c, ex.id, price, "upgrade")}
            /\ next_payment_id' = next_payment_id + 1
            /\ resp' = PurchaseResponse(u, c, mode, 200,
                                "Upgraded to paid enrollment")
            /\ UNCHANGED next_enrollment_id
       ELSE IF case = "c"
       THEN /\ enrollments' = enrollments \cup
                  {NewEnrollment(next_enrollment_id, u, c, "audit", 0)}
            /\ next_enrollment_id' = next_enrollment_id + 1
            /\ resp' = PurchaseResponse(u, c, mode, 201, "Enrolled as audit")
            /\ UNCHANGED <<payments, next_payment_id>>
       ELSE IF case = "d"
       THEN /\ enrollments' = enrollments \cup
                  {NewEnrollment(next_enrollment_id, u, c, "paid", price)}
            /\ payments' = payments \cup
                  {NewPayment(next_payment_id, u, c, next_enrollment_id,
                              price, "single")}
            /\ next_enrollment_id' = next_enrollment_id + 1
            /\ next_payment_id' = next_payment_id + 1
            /\ resp' = PurchaseResponse(u, c, mode, 201,
                                "Course purchased successfully")
       ELSE /\ resp' = PurchaseResponse(u, c, mode, 400,
                                "Invalid enrollment state.")
            /\ unchangedDb
    /\ UNCHANGED <<lessons, lesson_progresses, certificates, cart_items,
                   next_lesson_id, next_certificate_id, next_cart_item_id,
                   now>>
    /\ UNCHANGED <<reqs, started, quizVars>>

MarkCompleted_always(lesson_progress, t) ==
    [lesson_progress EXCEPT !.is_completed = TRUE, !.completed_at = t]

\* views.py 114-117: if not lesson_progress.is_completed: ... save()
MarkCompleted(lesson_progress, t) ==
    IF ~ lesson_progress.is_completed
    THEN [lesson_progress EXCEPT !.is_completed = TRUE, !.completed_at = t]
    ELSE lesson_progress

\* one answer for both failed lookups
LoadFailure_generic(lesson_found, enrolled) ==
    IF ~ lesson_found \/ ~ enrolled
    THEN [status |-> 400,
          detail |-> "You must enroll in this course first."]
    ELSE [status |-> 200, detail |-> ""]

\* views.py 82-104: the answers of the two lookups that can fail, status 200
\* when both rows were found
LoadFailure(lesson_found, enrolled) ==
    IF ~ lesson_found
    THEN [status |-> 404, detail |-> "Lesson not found."]
    ELSE IF ~ enrolled
    THEN [status |-> 400,
          detail |-> "You must enroll in this course first."]
    ELSE [status |-> 200, detail |-> ""]

\* a percentage that is only ever raised
WithProgress_max(enrollment, progress_percent) ==
    [enrollment EXCEPT !.progress_percent =
        IF @ > progress_percent THEN @ ELSE progress_percent]

\* views.py 134: enrollment.progress_percent = progress_percent
WithProgress(enrollment, progress_percent) ==
    [enrollment EXCEPT !.progress_percent = progress_percent]

\* ---------------------------------------------- POST lessons/<id>/complete/
CompleteLesson(u, l) ==
    LET found == {x \in lessons : x.id = l}
        lesson == CHOOSE x \in found : TRUE
        course == sectionCourse(lesson.section)
        enr == EnrollmentsOf(u, course)
        enrollment == CHOOSE e \in enr : TRUE
        got == {lp \in lesson_progresses :
                    lp.enrollment = enrollment.id /\ lp.lesson = l}
        lesson_progress == IF got # {} THEN CHOOSE lp \in got : TRUE
                           ELSE NewLessonProgress(enrollment.id, l)
        marked == MarkCompleted(lesson_progress, now)
        progresses == (lesson_progresses \ {lesson_progress}) \cup {marked}
        total_lessons == Cardinality(LessonsOfCourse(course))
        completed_lessons ==
            Cardinality({lp \in progresses :
                lp.enrollment = enrollment.id /\ lp.is_completed})
        progress_percent == ProgressPercent(completed_lessons, total_lessons)
        failure == LoadFailure(found # {}, found # {} /\ enr # {})
        unchangedDb == UNCHANGED <<enrollments, lesson_progresses, now>>
    IN
    /\ IF failure.status # 200
       THEN /\ resp' = Response("complete", u,
                                IF found = {} THEN None ELSE course, l,
                                failure.status, failure.detail)
            /\ unchangedDb
       ELSE /\ lesson_progresses' = progresses
            /\ now' = IF lesson_progress.is_completed THEN now ELSE now + 1
            /\ enrollments' = (enrollments \ {enrollment}) \cup
                  {WithProgress(enrollment, progress_percent)}
            /\ resp' = [Response("complete", u, course, l, 200,
                                 "Lesson marked as completed.")
                        EXCEPT !.progress_percent = progress_percent,
                               !.completed = TRUE,
                               !.was_completed =
                                   lesson_progress.is_completed]
    /\ UNCHANGED <<lessons, certificates, payments, cart_items,
                   next_lesson_id, next_enrollment_id, next_certificate_id,
                   next_payment_id, next_cart_item_id>>
    /\ UNCHANGED <<reqs, started, quizVars>>

PaidEnrollmentsOf_any(u, c) == EnrollmentsOf(u, c)

\* Enrollment.objects.get(student, course, enrollment_type='paid')
PaidEnrollmentsOf(u, c) ==
    {e \in EnrollmentsOf(u, c) : e.enrollment_type = "paid"}

\* the eligibility test without its empty-course branch
EligibilityFailure_noEmpty(total_lessons, completed_lessons) ==
    IF completed_lessons < total_lessons THEN "Course not completed yet."
    ELSE ""

\* the completion test with <= for <
EligibilityFailure_offByOne(total_lessons, completed_lessons) ==
    IF total_lessons = 0 THEN "Course has no lessons."
    ELSE IF completed_lessons <= total_lessons
    THEN "Course not completed yet."
    ELSE ""

\* views.py 640-651: the refusal for the two counts, "" when there is none
EligibilityFailure(total_lessons, completed_lessons) ==
    IF total_lessons = 0 THEN "Course has no lessons."
    ELSE IF completed_lessons < total_lessons
    THEN "Course not completed yet."
    ELSE ""

\* ------------------------------------- POST courses/<id>/certificate/issue/
IssueCertificate(u, c) ==
    LET paid == PaidEnrollmentsOf(u, c)
        enrollment == CHOOSE e \in paid : TRUE
        existing == CertificatesOf(u, c)
        existing_certificate == CHOOSE k \in existing : TRUE
        total_lessons == Cardinality(LessonsOfCourse(c))
        completed_lessons == Cardinality(CompletedOf(enrollment.id))
        certificate == [id |-> next_certificate_id, user |-> u, course |-> c,
                        enrollment |-> enrollment.id,
                        certificate_code |-> next_certificate_id]
        unchangedDb == UNCHANGED <<enrollments, certificates,
                                   next_certificate_id>>
        failure == EligibilityFailure(total_lessons, completed_lessons)
        mints == /\ role(u) = "student" /\ paid # {} /\ existing = {}
                 /\ failure = ""
    IN
    /\ mints => next_certificate_id <= MaxCertificateIds
    /\ IF role(u) # "student"
       THEN /\ resp' = Response("issue", u, c, 0, 403,
                                "Only students can request certificates.")
            /\ unchangedDb
       ELSE IF paid = {}
       THEN /\ resp' = Response("issue", u, c, 0, 400,
                                "Certificate only for paid enrollments.")
            /\ unchangedDb
       ELSE IF existing # {}
       THEN /\ resp' = [Response("issue", u, c, 0, 200, "")
                  EXCEPT !.certificate_id = existing_certificate.id,
                         !.certificate_code =
                              existing_certificate.certificate_code]
            /\ unchangedDb
       ELSE IF failure # ""
       THEN /\ resp' = Response("issue", u, c, 0, 400, failure)
            /\ unchangedDb
       ELSE /\ certificates' = certificates \cup {certificate}
            /\ next_certificate_id' = next_certificate_id + 1
            /\ enrollments' = (enrollments \ {enrollment}) \cup
                  {[enrollment EXCEPT !.granted_certificate = TRUE]}
            /\ resp' = [Response("issue", u, c, 0, 201, "")
                  EXCEPT !.certificate_id = certificate.id,
                         !.certificate_code = certificate.certificate_code]
    /\ UNCHANGED <<lessons, lesson_progresses, payments, cart_items,
                   next_lesson_id, next_enrollment_id, next_payment_id, next_cart_item_id, now>>
    /\ UNCHANGED <<reqs, started, quizVars>>

\* --------------------------------------------------- POST teacher/lessons/
CreateLesson(t, sec) ==
    /\ next_lesson_id <= MaxLessons
    /\ courseTeacher(sectionCourse(sec)) = t
    /\ lessons' = lessons \cup {[id |-> next_lesson_id, section |-> sec]}
    /\ next_lesson_id' = next_lesson_id + 1
    /\ resp' = Response("lesson_create", t, sectionCourse(sec),
                        next_lesson_id, 201, "")
    /\ UNCHANGED <<enrollments, lesson_progresses, certificates, payments,
                   cart_items, next_enrollment_id, next_certificate_id,
                   next_payment_id, next_cart_item_id, now>>
    /\ UNCHANGED <<reqs, started, quizVars>>

\* ---------------------------------------------- DELETE teacher/lessons/<id>/
DestroyLesson(t, l) ==
    /\ \E x \in lessons :
          /\ x.id = l
          /\ courseTeacher(sectionCourse(x.section)) = t
          /\ lessons' = lessons \ {x}
          /\ lesson_progresses' =
                {lp \in lesson_progresses : lp.lesson # l}
          /\ resp' = Response("lesson_destroy", t, sectionCourse(x.section),
                              l, 204, "")
    /\ UNCHANGED <<enrollments, certificates, payments, cart_items,
                   next_lesson_id, next_enrollment_id, next_certificate_id,
                   next_payment_id, next_cart_item_id, now>>
    /\ UNCHANGED <<reqs, started, quizVars>>

\* ------------------------------------------------- POST enrollments/cart/add/
CartAdd(u, c) ==
    LET owned == \E e \in EnrollmentsOf(u, c) : e.enrollment_type = "paid"
        inCart == \E i \in cart_items : i.user = u /\ i.course = c
        unchangedDb == UNCHANGED <<cart_items, next_cart_item_id>>
    IN
    /\ (role(u) = "student" /\ courseTeacher(c) # u /\ ~ owned /\ ~ inCart)
          => next_cart_item_id <= MaxCartItemIds
    /\ IF role(u) # "student"
       THEN /\ resp' = Response("cart_add", u, c, 0, 403,
                                "Only students can add courses to cart.")
            /\ unchangedDb
       ELSE IF courseTeacher(c) = u
       THEN /\ resp' = Response("cart_add", u, c, 0, 400,
                                "You cannot add your own course to cart.")
            /\ unchangedDb
       ELSE IF owned
       THEN /\ resp' = Response("cart_add", u, c, 0, 400,
                                "You already own this course.")
            /\ unchangedDb
       ELSE IF inCart
       THEN /\ resp' = Response("cart_add", u, c, 0, 200, "Already in cart")
            /\ unchangedDb
       ELSE /\ cart_items' = cart_items \cup
                  {[id |-> next_cart_item_id, user |-> u, course |-> c,
                    price_at_add |-> PriceOf(c)]}
            /\ next_cart_item_id' = next_cart_item_id + 1
            /\ resp' = Response("cart_add", u, c, 0, 201, "Added to cart")
    /\ UNCHANGED <<lessons, enrollments, lesson_progresses, certificates,
                   payments, next_lesson_id, next_enrollment_id,
                   next_certificate_id, next_payment_id, now>>
    /\ UNCHANGED <<reqs, started, quizVars>>

\* ------------------------------------ DELETE enrollments/cart/items/<id>/
CartItemDelete(u, item_id) ==
    /\ \E i \in cart_items :
          /\ i.id = item_id /\ i.user = u
          /\ cart_items' = cart_items \ {i}
          /\ resp' = Response("cart_delete", u, i.course, 0, 204,
                              "Item removed from cart")
    /\ UNCHANGED <<lessons, enrollments, lesson_progresses, certificates,
                   payments, next_lesson_id, next_enrollment_id,
                   next_certificate_id, next_payment_id, next_cart_item_id,
                   now>>
    /\ UNCHANGED <<reqs, started, quizVars>>

\* ---------------------------------------- POST enrollments/cart/checkout/
\* CartItem.Meta.ordering = ["-created_at"]: newest item first
RECURSIVE OrderedItems(_)
OrderedItems(items) ==
    IF items = {} THEN <<>>
    ELSE LET newest == CHOOSE i \in items : \A j \in items : j.id <= i.id
         IN <<newest>> \o OrderedItems(items \ {newest})

\* the loop of cart_views.py 134-159 over the items from position k on;
\* acc carries the tables and the two result lists, acc.failed is the
\* IntegrityError of Enrollment.objects.create that ends the request
RECURSIVE CheckoutLoop(_, _, _, _)
CheckoutLoop(u, items, k, acc) ==
    IF k > Len(items) \/ acc.failed THEN acc
    ELSE LET item == items[k]
             course == item.course
         IN IF \E e \in acc.enrollments :
                  /\ e.student = u /\ e.course = course
                  /\ e.enrollment_type = "paid"
            THEN CheckoutLoop(u, items, k + 1,
                   [acc EXCEPT !.skipped = Append(@, course)])
            ELSE IF ~ EnrollmentInsertAllowed(acc.enrollments, u, course)
            THEN [acc EXCEPT !.failed = TRUE]
            ELSE CheckoutLoop(u, items, k + 1,
                   [acc EXCEPT
                      !.enrollments = @ \cup
                          {NewEnrollment(acc.next_enrollment_id, u, course,
                                         "paid", item.price_at_add)},
                      !.payments = @ \cup
                          {NewPayment(acc.next_payment_id, u, course,
                                      acc.next_enrollment_id,
                                      item.price_at_add, "cart")},
                      !.next_enrollment_id = @ + 1,
                      !.next_payment_id = @ + 1,
                      !.created = Append(@, course)])

CartCheckout(u, item_ids) ==
    LET mine == {i \in cart_items : i.user = u}
        items == IF item_ids # {}
                 THEN {i \in mine : i.id \in item_ids} ELSE mine
        out == CheckoutLoop(u, OrderedItems(items), 1,
                 [enrollments |-> enrollments, payments |-> payments,
                  next_enrollment_id |-> next_enrollment_id,
                  next_payment_id |-> next_payment_id,
                  created |-> <<>>, skipped |-> <<>>, failed |-> FALSE])
        unchangedDb == UNCHANGED <<enrollments, payments, cart_items,
                                   next_enrollment_id, next_payment_id>>
    IN
    /\ IF role(u) # "student"
       THEN /\ resp' = Response("cart_checkout", u, None, 0, 403,
                                "Only students can checkout.")
            /\ unchangedDb
       ELSE IF items = {}
       THEN /\ resp' = Response("cart_checkout", u, None, 0, 400,
                                "No items to checkout.")
            /\ unchangedDb
       ELSE /\ out.next_enrollment_id <= MaxEnrollmentIds + 1
            /\ enrollments' = out.enrollments
            /\ payments' = out.payments
            /\ next_enrollment_id' = out.next_enrollment_id
            /\ next_payment_id' = out.next_payment_id
            /\ IF out.failed
               THEN /\ cart_items' = cart_items
                    /\ resp' = Response("cart_checkout", u, None, 0, 500,
                                        "IntegrityError")
               ELSE /\ cart_items' = cart_items \ items
                    /\ resp' = [Response("cart_checkout", u, None, 0, 200,
                                         "Checkout completed.")
                          EXCEPT !.enrolled_courses = out.created,
                                 !.already_owned_courses = out.skipped]
    /\ UNCHANGED <<lessons, lesson_progresses, certificates, next_lesson_id,
                   next_certificate_id, next_cart_item_id, now>>
    /\ UNCHANGED <<reqs, started, quizVars>>

\* the progress engine on one course
CoreCourses == {"c1"}
CoreSections == {sec \in Sections : sectionCourse(sec) \in CoreCourses}

Next ==
    \/ \E u \in Students, c \in CoreCourses : Enroll(u, c)
    \/ \E u \in Users, c \in CoreCourses, mode \in Modes :
          Purchase(u, c, mode)
    \/ \E u \in Users, l \in LessonIds : CompleteLesson(u, l)
    \/ \E u \in Users, c \in CoreCourses : IssueCertificate(u, c)
    \/ \E t \in Teachers, sec \in CoreSections : CreateLesson(t, sec)
    \/ \E t \in Teachers, l \in LessonIds : DestroyLesson(t, l)

Spec == Init /\ [][Next]_vars

\* ==================================================================
\* Requests served concurrently: every worker runs one handler at a time,
\* one database statement per step; the local variables of the handler
\* (among them the model instances it loaded) live in reqs[w].
\* ==================================================================
MaxRequests == 4         \* requests begun by the workers
ConcLessons == 1         \* lessons of course c1 while the workers run
RaceLessons == 2         \* lessons of course c1 in the completion race
MaxPayments == 3         \* Payment rows ever inserted

Begin(w, op, u, c) ==
    [IdleReq EXCEPT !.op = op, !.user = u, !.course = c]

Goto(w, r) == reqs' = [reqs EXCEPT ![w] = r]

Finish(w, response) ==
    /\ reqs' = [reqs EXCEPT ![w] = IdleReq]
    /\ resp' = response

CanBegin(w) == reqs[w].pc = "idle" /\ started < MaxRequests

catalogVars == <<lessons, next_lesson_id>>

\* Model.save() of an instance that has a primary key: UPDATE of every
\* column of the row with that key
SaveRow(tbl, row) == {IF x.id = row.id THEN row ELSE x : x \in tbl}

\* LessonProgress.save(): the row is found by its key (enrollment, lesson)
SaveLessonProgress(tbl, row) ==
    {IF x.enrollment = row.enrollment /\ x.lesson = row.lesson
     THEN row ELSE x : x \in tbl}

\* ---- complete-lesson, views.py 80-142
\* 82-104: load the lesson and the caller's enrollment
CL_Load(w, u, l) ==
    LET found == {x \in lessons : x.id = l}
        lesson == CHOOSE x \in found : TRUE
        course == sectionCourse(lesson.section)
        enr == EnrollmentsOf(u, course)
        failure == LoadFailure(found # {}, found # {} /\ enr # {})
    IN
    /\ CanBegin(w)
    /\ started' = started + 1
    /\ IF failure.status # 200
       THEN Finish(w, Response("complete", u,
                               IF found = {} THEN None ELSE course, l,
                               failure.status, failure.detail))
       ELSE /\ Goto(w, [Begin(w, "complete", u, course) EXCEPT
                          !.pc = "get_or_create", !.lesson = l,
                          !.enrollment = CHOOSE e \in enr : TRUE])
            /\ UNCHANGED resp
    /\ UNCHANGED <<catalogVars, quizVars, enrollments, lesson_progresses,
                   certificates, payments, cart_items, next_enrollment_id,
                   next_certificate_id, next_payment_id, next_cart_item_id,
                   now>>

\* 107-111: LessonProgress.objects.get_or_create
CL_GetOrCreate(w) ==
    LET r == reqs[w]
        got == {lp \in lesson_progresses :
                   lp.enrollment = r.enrollment.id /\ lp.lesson = r.lesson}
        lesson_progress == IF got # {} THEN CHOOSE lp \in got : TRUE
                           ELSE NewLessonProgress(r.enrollment.id, r.lesson)
    IN
    /\ r.op = "complete" /\ r.pc = "get_or_create"
    /\ lesson_progresses' = lesson_progresses \cup {lesson_progress}
    /\ Goto(w, [r EXCEPT !.lesson_progress = lesson_progress,
                         !.was_completed = lesson_progress.is_completed,
                         !.pc = IF lesson_progress.is_completed
                                THEN "count" ELSE "mark"])
    /\ UNCHANGED <<catalogVars, quizVars, enrollments, certificates, payments,
                   cart_items, next_enrollment_id, next_certificate_id,
                   next_payment_id, next_cart_item_id, now, resp, started>>

\* 114-117: mark and save the loaded LessonProgress instance
CL_Mark(w) ==
    LET r == reqs[w]
        marked == MarkCompleted(r.lesson_progress, now)
    IN
    /\ r.op = "complete" /\ r.pc = "mark"
    /\ lesson_progresses' = SaveLessonProgress(lesson_progresses, marked)
    /\ now' = now + 1
    /\ Goto(w, [r EXCEPT !.lesson_progress = marked, !.pc = "count"])
    /\ UNCHANGED <<catalogVars, quizVars, enrollments, certificates, payments,
                   cart_items, next_enrollment_id, next_certificate_id,
                   next_payment_id, next_cart_item_id, resp, started>>

\* 120-132: the two counts and the percentage
CL_Count(w) ==
    LET r == reqs[w]
        total_lessons == Cardinality(LessonsOfCourse(r.course))
        completed_lessons == Cardinality(CompletedOf(r.enrollment.id))
    IN
    /\ r.op = "complete" /\ r.pc = "count"
    /\ Goto(w, [r EXCEPT !.n = ProgressPercent(completed_lessons,
                                               total_lessons),
                         !.pc = "save"])
    /\ UNCHANGED <<catalogVars, quizVars, enrollments, lesson_progresses,
                   certificates, payments, cart_items, next_enrollment_id,
                   next_certificate_id, next_payment_id, next_cart_item_id,
                   now, resp, started>>

\* 134-142: enrollment.save() of the instance loaded at 96 and the response
CL_Save(w) ==
    LET r == reqs[w]
        saved == WithProgress(r.enrollment, r.n)
    IN
    /\ r.op = "complete" /\ r.pc = "save"
    /\ enrollments' = SaveRow(enrollments, saved)
    /\ Finish(w, [Response("complete", r.user, r.course, r.lesson, 200,
                           "Lesson marked as completed.")
                  EXCEPT !.progress_percent = r.n, !.completed = TRUE,
                         !.was_completed = r.was_completed])
    /\ UNCHANGED <<catalogVars, quizVars, lesson_progresses, certificates, payments,
                   cart_items, next_enrollment_id, next_certificate_id,
                   next_payment_id, next_cart_item_id, now, started>>

\* ---- purchase, views.py 458-570
\* 460-503, 566-570: the checks, the existing enrollment, cases a and
\* fallback, and the choice of case b, c or d
P_Load(w, u, c, mode) ==
    LET existing == EnrollmentsOf(u, c)
        ex == CHOOSE e \in existing : TRUE
        case == PurchaseCase(IF existing = {} THEN None
                             ELSE ex.enrollment_type, mode)
        r == [Begin(w, "purchase", u, c) EXCEPT !.mode = mode]
    IN
    /\ CanBegin(w)
    /\ started' = started + 1
    /\ IF role(u) # "student"
       THEN Finish(w, PurchaseResponse(u, c, mode, 403,
                                       "Only students can purchase courses."))
       ELSE IF courseTeacher(c) = u
       THEN Finish(w, PurchaseResponse(u, c, mode, 400,
                                       "You cannot purchase your own course."))
       ELSE IF case = "a"
       THEN Finish(w, PurchaseResponse(u, c, mode, 200, "Already purchased"))
       ELSE IF case = "b"
       THEN /\ Goto(w, [r EXCEPT !.pc = "upgrade_save", !.enrollment = ex])
            /\ UNCHANGED resp
       ELSE IF case = "c"
       THEN Goto(w, [r EXCEPT !.pc = "create_audit"]) /\ UNCHANGED resp
       ELSE IF case = "d"
       THEN Goto(w, [r EXCEPT !.pc = "create_paid"]) /\ UNCHANGED resp
       ELSE Finish(w, PurchaseResponse(u, c, mode, 400,
                                       "Invalid enrollment state."))
    /\ UNCHANGED <<catalogVars, quizVars, enrollments, lesson_progresses,
                   certificates, payments, cart_items, next_enrollment_id,
                   next_certificate_id, next_payment_id, next_cart_item_id,
                   now>>

\* 507-509: existing.save() of the instance loaded at 492
P_UpgradeSave(w) ==
    LET r == reqs[w]
        saved == Upgraded(r.enrollment, PriceOf(r.course))
    IN
    /\ r.op = "purchase" /\ r.pc = "upgrade_save"
    /\ enrollments' = SaveRow(enrollments, saved)
    /\ Goto(w, [r EXCEPT !.enrollment = saved, !.pc = "upgrade_pay"])
    /\ UNCHANGED <<catalogVars, quizVars, lesson_progresses, certificates, payments,
                   cart_items, next_enrollment_id, next_certificate_id,
                   next_payment_id, next_cart_item_id, now, resp, started>>

\* 511-524: the Payment of the upgrade and the response
P_UpgradePay(w) ==
    LET r == reqs[w] IN
    /\ r.op = "purchase" /\ r.pc = "upgrade_pay"
    /\ next_payment_id <= MaxPayments
    /\ payments' = payments \cup
          {NewPayment(next_payment_id, r.user, r.course, r.enrollment.id,
                      r.enrollment.price_paid, "upgrade")}
    /\ next_payment_id' = next_payment_id + 1
    /\ Finish(w, PurchaseResponse(r.user, r.course, r.mode, 200,
                                  "Upgraded to paid enrollment"))
    /\ UNCHANGED <<catalogVars, quizVars, enrollments, lesson_progresses,
                   certificates, cart_items, next_enrollment_id,
                   next_certificate_id, next_cart_item_id, now, started>>

\* 527-539: Enrollment.objects.create of case c; the unique constraint
\* answers a second row with IntegrityError
P_CreateAudit(w) ==
    LET r == reqs[w] IN
    /\ r.op = "purchase" /\ r.pc = "create_audit"
    /\ IF EnrollmentInsertAllowed(enrollments, r.user, r.course)
       THEN /\ next_enrollment_id <= MaxEnrollmentIds
            /\ enrollments' = enrollments \cup
                  {NewEnrollment(next_enrollment_id, r.user, r.course,
                                 "audit", 0)}
            /\ next_enrollment_id' = next_enrollment_id + 1
            /\ Finish(w, PurchaseResponse(r.user, r.course, r.mode, 201,
                                          "Enrolled as audit"))
       ELSE /\ Finish(w, PurchaseResponse(r.user, r.course, r.mode, 500,
                                          "IntegrityError"))
            /\ UNCHANGED <<enrollments, next_enrollment_id>>
    /\ UNCHANGED <<catalogVars, quizVars, lesson_progresses, certificates, payments,
                   cart_items, next_certificate_id, next_payment_id,
                   next_cart_item_id, now, started>>

\* 542-549: Enrollment.objects.create of case d
P_CreatePaid(w) ==
    LET r == reqs[w]
        enrollment == NewEnrollment(next_enrollment_id, r.user, r.course,
                                    "paid", PriceOf(r.course))
    IN
    /\ r.op = "purchase" /\ r.pc = "create_paid"
    /\ IF EnrollmentInsertAllowed(enrollments, r.user, r.course)
       THEN /\ next_enrollment_id <= MaxEnrollmentIds
            /\ enrollments' = enrollments \cup {enrollment}
            /\ next_enrollment_id' = next_enrollment_id + 1
            /\ Goto(w, [r EXCEPT !.enrollment = enrollment,
                                 !.pc = "create_pay"])
            /\ UNCHANGED resp
       ELSE /\ Finish(w, PurchaseResponse(r.user, r.course, r.mode, 500,
                                          "IntegrityError"))
            /\ UNCHANGED <<enrollments, next_enrollment_id>>
    /\ UNCHANGED <<catalogVars, quizVars, lesson_progresses, certificates, payments,
                   cart_items, next_certificate_id, next_payment_id,
                   next_cart_item_id, now, started>>

\* 551-564: the Payment of case d and the response
P_CreatePay(w) ==
    LET r == reqs[w] IN
    /\ r.op = "purchase" /\ r.pc = "create_pay"
    /\ next_payment_id <= MaxPayments
    /\ payments' = payments \cup
          {NewPayment(next_payment_id, r.user, r.course, r.enrollment.id,
                      r.enrollment.price_paid, "single")}
    /\ next_payment_id' = next_payment_id + 1
    /\ Finish(w, PurchaseResponse(r.user, r.course, r.mode, 201,
                                  "Course purchased successfully"))
    /\ UNCHANGED <<catalogVars, quizVars, enrollments, lesson_progresses,
                   certificates, cart_items, next_enrollment_id,
                   next_certificate_id, next_cart_item_id, now, started>>

\* ---- issue-certificate, views.py 584-670
\* 586-613: role, course and the paid enrollment
I_Load(w, u, c) ==
    LET paid == PaidEnrollmentsOf(u, c) IN
    /\ CanBegin(w)
    /\ started' = started + 1
    /\ IF role(u) # "student"
       THEN Finish(w, Response("issue", u, c, 0, 403,
                               "Only students can request certificates."))
       ELSE IF paid = {}
       THEN Finish(w, Response("issue", u, c, 0, 400,
                               "Certificate only for paid enrollments."))
       ELSE /\ Goto(w, [Begin(w, "issue", u, c) EXCEPT
                          !.pc = "check_existing",
                          !.enrollment = CHOOSE e \in paid : TRUE])
            /\ UNCHANGED resp
    /\ UNCHANGED <<catalogVars, quizVars, enrollments, lesson_progresses,
                   certificates, payments, cart_items, next_enrollment_id,
                   next_certificate_id, next_payment_id, next_cart_item_id,
                   now>>

\* 615-628: the existing certificate, if any, is the answer
I_CheckExisting(w) ==
    LET r == reqs[w]
        existing == CertificatesOf(r.user, r.course)
        existing_certificate == CHOOSE k \in existing : TRUE
    IN
    /\ r.op = "issue" /\ r.pc = "check_existing"
    /\ IF existing # {}
       THEN Finish(w, [Response("issue", r.user, r.course, 0, 200, "")
                  EXCEPT !.certificate_id = existing_certificate.id,
                         !.certificate_code =
                              existing_certificate.certificate_code])
       ELSE Goto(w, [r EXCEPT !.pc = "count"]) /\ UNCHANGED resp
    /\ UNCHANGED <<catalogVars, quizVars, enrollments, lesson_progresses,
                   certificates, payments, cart_items, next_enrollment_id,
                   next_certificate_id, next_payment_id, next_cart_item_id,
                   now, started>>

\* 630-651: the two counts and the two refusals
I_Count(w) ==
    LET r == reqs[w]
        total_lessons == Cardinality(LessonsOfCourse(r.course))
        completed_lessons == Cardinality(CompletedOf(r.enrollment.id))
        failure == EligibilityFailure(total_lessons, completed_lessons)
    IN
    /\ r.op = "issue" /\ r.pc = "count"
    /\ IF failure # ""
       THEN Finish(w, Response("issue", r.user, r.course, 0, 400, failure))
       ELSE Goto(w, [r EXCEPT !.pc = "create"]) /\ UNCHANGED resp
    /\ UNCHANGED <<catalogVars, quizVars, enrollments, lesson_progresses,
                   certificates, payments, cart_items, next_enrollment_id,
                   next_certificate_id, next_payment_id, next_cart_item_id,
                   now, started>>

\* 653-658: Certificate.objects.create; the unique constraint answers a
\* second row for (user, course) with IntegrityError
I_Create(w) ==
    LET r == reqs[w]
        certificate == [id |-> next_certificate_id, user |-> r.user,
                        course |-> r.course, enrollment |-> r.enrollment.id,
                        certificate_code |-> next_certificate_id]
    IN
    /\ r.op = "issue" /\ r.pc = "create"
    /\ IF CertificateInsertAllowed(certificates, r.user, r.course)
       THEN /\ next_certificate_id <= MaxCertificateIds
            /\ certificates' = certificates \cup {certificate}
            /\ next_certificate_id' = next_certificate_id + 1
            /\ Goto(w, [r EXCEPT !.n = certificate.id, !.pc = "grant"])
            /\ UNCHANGED resp
       ELSE /\ Finish(w, Response("issue", r.user, r.course, 0, 500,
                                  "IntegrityError"))
            /\ UNCHANGED <<certificates, next_certificate_id>>
    /\ UNCHANGED <<catalogVars, quizVars, enrollments, lesson_progresses, payments,
                   cart_items, next_enrollment_id, next_payment_id,
                   next_cart_item_id, now, started>>

\* 660-670: enrollment.save() of the instance loaded at 604, the response
I_Grant(w) ==
    LET r == reqs[w]
        saved == [r.enrollment EXCEPT !.granted_certificate = TRUE]
    IN
    /\ r.op = "issue" /\ r.pc = "grant"
    /\ enrollments' = SaveRow(enrollments, saved)
    /\ Finish(w, [Response("issue", r.user, r.course, 0, 201, "")
                  EXCEPT !.certificate_id = r.n, !.certificate_code = r.n])
    /\ UNCHANGED <<catalogVars, quizVars, lesson_progresses, certificates, payments,
                   cart_items, next_enrollment_id, next_certificate_id,
                   next_payment_id, next_cart_item_id, now, started>>

\* ---- cart checkout, cart_views.py 105-168
\* the queryset of 120-123; it is evaluated again by every use
CheckoutItems(u, item_ids) ==
    LET mine == {i \in cart_items : i.user = u}
    IN IF item_ids # {} THEN {i \in mine : i.id \in item_ids} ELSE mine

LoopPc(items, k) == IF k > Len(items) THEN "delete" ELSE "check"

\* 107-129: role and items.exists()
CO_Load(w, u, item_ids) ==
    /\ CanBegin(w)
    /\ started' = started + 1
    /\ IF role(u) # "student"
       THEN Finish(w, Response("cart_checkout", u, None, 0, 403,
                               "Only students can checkout."))
       ELSE IF CheckoutItems(u, item_ids) = {}
       THEN Finish(w, Response("cart_checkout", u, None, 0, 400,
                               "No items to checkout."))
       ELSE /\ Goto(w, [Begin(w, "cart_checkout", u, None) EXCEPT
                          !.pc = "fetch", !.item_ids = item_ids])
            /\ UNCHANGED resp
    /\ UNCHANGED <<catalogVars, quizVars, enrollments, lesson_progresses,
                   certificates, payments, cart_items, next_enrollment_id,
                   next_certificate_id, next_payment_id, next_cart_item_id,
                   now>>

\* 134: "for item in items" fetches the rows
CO_Fetch(w) ==
    LET r == reqs[w]
        items == OrderedItems(CheckoutItems(r.user, r.item_ids))
    IN
    /\ r.op = "cart_checkout" /\ r.pc = "fetch"
    /\ Goto(w, [r EXCEPT !.items = items, !.k = 1, !.pc = LoopPc(items, 1)])
    /\ UNCHANGED <<catalogVars, quizVars, enrollments, lesson_progresses,
                   certificates, payments, cart_items, next_enrollment_id,
                   next_certificate_id, next_payment_id, next_cart_item_id,
                   now, resp, started>>

\* 137-140: skip the course when a paid enrollment exists
CO_Check(w) ==
    LET r == reqs[w]
        course == r.items[r.k].course
    IN
    /\ r.op = "cart_checkout" /\ r.pc = "check"
    /\ IF PaidEnrollmentsOf(r.user, course) # {}
       THEN Goto(w, [r EXCEPT !.skipped = Append(@, course), !.k = @ + 1,
                              !.pc = LoopPc(r.items, r.k + 1)])
       ELSE Goto(w, [r EXCEPT !.pc = "create"])
    /\ UNCHANGED <<catalogVars, quizVars, enrollments, lesson_progresses,
                   certificates, payments, cart_items, next_enrollment_id,
                   next_certificate_id, next_payment_id, next_cart_item_id,
                   now, resp, started>>

\* 142-148: Enrollment.objects.create
CO_Create(w) ==
    LET r == reqs[w]
        item == r.items[r.k]
        enrollment == NewEnrollment(next_enrollment_id, r.user, item.course,
                                    "paid", item.price_at_add)
    IN
    /\ r.op = "cart_checkout" /\ r.pc = "create"
    /\ IF EnrollmentInsertAllowed(enrollments, r.user, item.course)
       THEN /\ next_enrollment_id <= MaxEnrollmentIds
            /\ enrollments' = enrollments \cup {enrollment}
            /\ next_enrollment_id' = next_enrollment_id + 1
            /\ Goto(w, [r EXCEPT !.enrollment = enrollment, !.pc = "pay"])
            /\ UNCHANGED resp
       ELSE /\ Finish(w, Response("cart_checkout", r.user, None, 0, 500,
                                  "IntegrityError"))
            /\ UNCHANGED <<enrollments, next_enrollment_id>>
    /\ UNCHANGED <<catalogVars, quizVars, lesson_progresses, certificates, payments,
                   cart_items, next_certificate_id, next_payment_id,
                   next_cart_item_id, now, started>>

\* 149-159: Payment.objects.create, created.append
CO_Pay(w) ==
    LET r == reqs[w]
        course == r.items[r.k].course
    IN
    /\ r.op = "cart_checkout" /\ r.pc = "pay"
    /\ next_payment_id <= MaxPayments
    /\ payments' = payments \cup
          {NewPayment(next_payment_id, r.user, course, r.enrollment.id,
                      r.enrollment.price_paid, "cart")}
    /\ next_payment_id' = next_payment_id + 1
    /\ Goto(w, [r EXCEPT !.created = Append(@, course), !.k = @ + 1,
                         !.pc = LoopPc(r.items, r.k + 1)])
    /\ UNCHANGED <<catalogVars, quizVars, enrollments, lesson_progresses,
                   certificates, cart_items, next_enrollment_id,
                   next_certificate_id, next_cart_item_id, now, resp,
                   started>>

\* 161-168: items.delete() and the response
CO_Delete(w) ==
    LET r == reqs[w] IN
    /\ r.op = "cart_checkout" /\ r.pc = "delete"
    /\ cart_items' = cart_items \ CheckoutItems(r.user, r.item_ids)
    /\ Finish(w, [Response("cart_checkout", r.user, None, 0, 200,
                           "Checkout completed.")
                  EXCEPT !.enrolled_courses = r.created,
                         !.already_owned_courses = r.skipped])
    /\ UNCHANGED <<catalogVars, quizVars, enrollments, lesson_progresses,
                   certificates, payments, next_enrollment_id,
                   next_certificate_id, next_payment_id, next_cart_item_id,
                   now, started>>

\* the catalog holds up to ConcLessons lessons of c1 when the workers start
InitConc ==
    /\ \E n \in 1..ConcLessons :
          /\ lessons = {[id |-> i, section |-> "c1a"] : i \in 1..n}
          /\ next_lesson_id = n + 1
    /\ enrollments = {}
    /\ lesson_progresses = {}
    /\ certificates = {}
    /\ payments = {}
    /\ cart_items = {}
    /\ student_quiz_attempts = {}
    /\ next_attempt_id = 1
    /\ next_enrollment_id = 1
    /\ next_certificate_id = 1
    /\ next_payment_id = 1
    /\ next_cart_item_id = 1
    /\ now = 1
    /\ resp = NoResp
    /\ reqs = [w \in Workers |-> IdleReq]
    /\ started = 0

NextConc ==
    \/ \E u \in Students, c \in CoreCourses : Enroll(u, c)
    \/ \E u \in Students, c \in CoreCourses : CartAdd(u, c)
    \/ \E w \in Workers, u \in Students, l \in 1..ConcLessons :
          CL_Load(w, u, l)
    \/ \E w \in Workers : CL_GetOrCreate(w)
    \/ \E w \in Workers : CL_Mark(w)
    \/ \E w \in Workers : CL_Count(w)
    \/ \E w \in Workers : CL_Save(w)
    \/ \E w \in Workers, u \in Students, c \in CoreCourses, mode \in Modes :
          P_Load(w, u, c, mode)
    \/ \E w \in Workers : P_UpgradeSave(w)
    \/ \E w \in Workers : P_UpgradePay(w)
    \/ \E w \in Workers : P_CreateAudit(w)
    \/ \E w \in Workers : P_CreatePaid(w)
    \/ \E w \in Workers : P_CreatePay(w)
    \/ \E w \in Workers, u \in Students, c \in CoreCourses : I_Load(w, u, c)
    \/ \E w \in Workers : I_CheckExisting(w)
    \/ \E w \in Workers : I_Count(w)
    \/ \E w \in Workers : I_Create(w)
    \/ \E w \in Workers : I_Grant(w)
    \/ \E w \in Workers, u \in Students : CO_Load(w, u, {})
    \/ \E w \in Workers : CO_Fetch(w)
    \/ \E w \in Workers : CO_Check(w)
    \/ \E w \in Workers : CO_Create(w)
    \/ \E w \in Workers : CO_Pay(w)
    \/ \E w \in Workers : CO_Delete(w)

SpecConc == InitConc /\ [][NextConc]_vars

\* enroll and concurrent complete-lesson requests only, for a course of
\* RaceLessons lessons
InitComplete ==
    /\ lessons = {[id |-> i, section |-> "c1a"] : i \in 1..RaceLessons}
    /\ next_lesson_id = RaceLessons + 1
    /\ enrollments = {}
    /\ lesson_progresses = {}
    /\ certificates = {}
    /\ payments = {}
    /\ cart_items = {}
    /\ student_quiz_attempts = {}
    /\ next_attempt_id = 1
    /\ next_enrollment_id = 1
    /\ next_certificate_id = 1
    /\ next_payment_id = 1
    /\ next_cart_item_id = 1
    /\ now = 1
    /\ resp = NoResp
    /\ reqs = [w \in Workers |-> IdleReq]
    /\ started = 0

NextComplete ==
    \/ \E u \in Students, c \in CoreCourses : Enroll(u, c)
    \/ \E w \in Workers, u \in Students, l \in 1..RaceLessons :
          CL_Load(w, u, l)
    \/ \E w \in Workers : CL_GetOrCreate(w)
    \/ \E w \in Workers : CL_Mark(w)
    \/ \E w \in Workers : CL_Count(w)
    \/ \E w \in Workers : CL_Save(w)

SpecComplete == InitComplete /\ [][NextComplete]_vars

\* ==================================================================
\* The entry points that create enrollments, called by any authenticated
\* user: enroll, purchase, cart add, cart item delete and cart checkout
\* ==================================================================
NextEntry ==
    \/ \E u \in Users, c \in CoreCourses : Enroll(u, c)
    \/ \E u \in Users, c \in CoreCourses, mode \in Modes :
          Purchase(u, c, mode)
    \/ \E u \in Users, c \in CoreCourses : CartAdd(u, c)
    \/ \E u \in Users, item_id \in 1..MaxCartItemIds :
          CartItemDelete(u, item_id)
    \/ \E u \in Users, item_ids \in SUBSET (1..MaxCartItemIds) :
          CartCheckout(u, item_ids)

SpecEntry == Init /\ [][NextEntry]_vars

\* ==================================================================
\* A teacher removes a student from a course and the student comes back
\* ==================================================================
\* payments that go with their enrollment
DetachedPayments_cascade(tbl, eid) == {p \in tbl : p.enrollment # eid}

\* on_delete=SET_NULL of Payment.enrollment (models.py 160-166): the rows
\* stay, their reference to the deleted enrollment becomes null
DetachedPayments(tbl, eid) ==
    {IF p.enrollment = eid THEN [p EXCEPT !.enrollment = 0] ELSE p :
        p \in tbl}

\* ------------------- DELETE teacher/courses/<id>/students/<student_id>/
RemoveStudentFromCourse(t, c, s) ==
    LET enr == EnrollmentsOf(s, c)
        enrollment == CHOOSE e \in enr : TRUE
        unchangedDb == UNCHANGED <<enrollments, lesson_progresses,
                                   certificates, payments,
                                   student_quiz_attempts>>
    IN
    /\ IF role(t) # "teacher"
       THEN /\ resp' = Response("remove_student", t, c, 0, 403,
                  "You do not have permission to perform this action.")
            /\ unchangedDb
       ELSE IF courseTeacher(c) # t
       THEN /\ resp' = Response("remove_student", t, c, 0, 403,
              "You do not have permission to remove students from this course.")
            /\ unchangedDb
       ELSE IF enr = {}
       THEN /\ resp' = Response("remove_student", t, c, 0, 404,
                                "Student is not enrolled in this course.")
            /\ unchangedDb
       ELSE /\ lesson_progresses' =
                  {lp \in lesson_progresses : lp.enrollment # enrollment.id}
            \* StudentQuizAttempt rows of the student for the course's
            \* quizzes
            /\ student_quiz_attempts' =
                  {a \in student_quiz_attempts :
                      ~ (a.student = s /\ quizCourse(a.quiz) = c)}
            /\ enrollments' = enrollments \ {enrollment}
            \* on_delete=CASCADE of Certificate.enrollment
            /\ certificates' =
                  {k \in certificates : k.enrollment # enrollment.id}
            /\ payments' = DetachedPayments(payments, enrollment.id)
            /\ resp' = Response("remove_student", t, c, 0, 200,
                                "Student removed from course.")
    /\ UNCHANGED <<lessons, cart_items, next_lesson_id, next_enrollment_id,
                   next_certificate_id, next_payment_id, next_cart_item_id,
                   now>>
    /\ UNCHANGED <<reqs, started, next_attempt_id>>

NextRemove ==
    \/ \E u \in Students, c \in CoreCourses : Enroll(u, c)
    \/ \E u \in Students, c \in CoreCourses, mode \in Modes :
          Purchase(u, c, mode)
    \/ \E u \in Students, l \in 1..ConcLessons : CompleteLesson(u, l)
    \/ \E u \in Students, c \in CoreCourses : IssueCertificate(u, c)
    \/ \E t \in Users, c \in CoreCourses, s \in Students :
          RemoveStudentFromCourse(t, c, s)

SpecRemove == InitConc /\ [][NextRemove]_vars

\* ==================================================================
\* Purchases whose Payment insert is refused by the store
\* ==================================================================
\* Payment.save draws reference_code from uuid4 (models.py 195-199) and
\* the column is unique (183-188): a draw can repeat the code of a row
\* that is already stored, and only of such a row
ReferenceCodeCanCollide(tbl) == tbl # {}

\* 511-519 and 551-559: Payment.objects.create raises IntegrityError; the
\* handler opens no transaction, so what it saved before stays
P_PayCollides(w) ==
    LET r == reqs[w] IN
    /\ r.op = "purchase" /\ r.pc \in {"upgrade_pay", "create_pay"}
    /\ ReferenceCodeCanCollide(payments)
    /\ Finish(w, PurchaseResponse(r.user, r.course, r.mode, 500,
                                  "IntegrityError"))
    /\ UNCHANGED <<catalogVars, quizVars, enrollments, lesson_progresses,
                   certificates, payments, cart_items, next_enrollment_id,
                   next_certificate_id, next_payment_id, next_cart_item_id,
                   now, started>>

NextFail ==
    \/ \E u \in Students, c \in Courses : Enroll(u, c)
    \/ \E w \in Workers, u \in Students, c \in Courses, mode \in Modes :
          P_Load(w, u, c, mode)
    \/ \E w \in Workers : P_UpgradeSave(w)
    \/ \E w \in Workers : P_UpgradePay(w)
    \/ \E w \in Workers : P_CreateAudit(w)
    \/ \E w \in Workers : P_CreatePaid(w)
    \/ \E w \in Workers : P_CreatePay(w)
    \/ \E w \in Workers : P_PayCollides(w)

SpecFail == InitConc /\ [][NextFail]_vars

\* ==================================================================
\* The teacher also moves lessons between the sections of their courses
\* ==================================================================
\* ------------------------------------- PUT/PATCH teacher/lessons/<id>/
\* the lesson is looked up among the teacher's lessons (get_queryset), the
\* target section must belong to a course of the teacher (perform_update);
\* LessonProgress rows reference the lesson and are left as they are
UpdateLesson(t, l, sec) ==
    /\ \E x \in lessons :
          /\ x.id = l
          /\ courseTeacher(sectionCourse(x.section)) = t
          /\ IF courseTeacher(sectionCourse(sec)) # t
             THEN /\ resp' = Response("lesson_update", t,
                       sectionCourse(sec), l, 403,
                       "You can only update lessons for sections in your own courses.")
                  /\ UNCHANGED lessons
             ELSE /\ lessons' = (lessons \ {x}) \cup
                                    {[x EXCEPT !.section = sec]}
                  /\ resp' = Response("lesson_update", t,
                                      sectionCourse(sec), l, 200, "")
    /\ UNCHANGED <<enrollments, lesson_progresses, certificates, payments,
                   cart_items, next_lesson_id, next_enrollment_id,
                   next_certificate_id, next_payment_id, next_cart_item_id,
                   now>>
    /\ UNCHANGED <<reqs, started, quizVars>>

NextMove ==
    \/ \E u \in Students, c \in CoreCourses : Enroll(u, c)
    \/ \E u \in Students, c \in CoreCourses, mode \in Modes :
          Purchase(u, c, mode)
    \/ \E u \in Students, l \in LessonIds : CompleteLesson(u, l)
    \/ \E t \in Teachers, sec \in CoreSections : CreateLesson(t, sec)
    \/ \E t \in Teachers, l \in LessonIds : DestroyLesson(t, l)
    \/ \E t \in Teachers, l \in LessonIds, sec \in Sections :
          UpdateLesson(t, l, sec)

SpecMove == Init /\ [][NextMove]_vars

\* ==================================================================
\* One student and a published course of four lessons
\* ==================================================================
InitScenario ==
    /\ lessons = {[id |-> i, section |-> "c1a"] : i \in 1..4}
    /\ next_lesson_id = 5
    /\ enrollments = {}
    /\ lesson_progresses = {}
    /\ certificates = {}
    /\ payments = {}
    /\ cart_items = {}
    /\ student_quiz_attempts = {}
    /\ next_attempt_id = 1
    /\ next_enrollment_id = 1
    /\ next_certificate_id = 1
    /\ next_payment_id = 1
    /\ next_cart_item_id = 1
    /\ now = 1
    /\ resp = NoResp
    /\ reqs = [w \in Workers |-> IdleReq]
    /\ started = 0

NextScenario ==
    \/ \E u \in Students, c \in CoreCourses : Enroll(u, c)
    \/ \E u \in Students, c \in CoreCourses, mode \in Modes :
          Purchase(u, c, mode)
    \/ \E u \in Students, l \in 1..4 : CompleteLesson(u, l)
    \/ \E u \in Students, c \in CoreCourses : IssueCertificate(u, c)

SpecScenario == InitScenario /\ [][NextScenario]_vars

\* ==================================================================
\* The student's course list next to the recalculator, for courses of up
\* to StatusLessons lessons
\* ==================================================================
StatusLessons == 5       \* lessons of course c1 in the course-list check

\* views.py 202-212: the status shown for a cached percentage
StatusValue(progress_percent) ==
    IF progress_percent >= 100 THEN "completed"
    ELSE IF progress_percent > 0 THEN "in_progress"
    ELSE "in_progress"

\* ------------------------------------------------ GET student/my-courses/
\* the entry of the returned list for course c, if the caller has one
MyCourses(u, c) ==
    LET enr == EnrollmentsOf(u, c)
        enrollment == CHOOSE e \in enr : TRUE
    IN
    /\ resp' = IF enr = {}
               THEN Response("my_courses", u, c, 0, 200, "")
               ELSE [Response("my_courses", u, c, 0, 200,
                              StatusValue(enrollment.progress_percent))
                     EXCEPT !.progress_percent =
                                enrollment.progress_percent]
    /\ UNCHANGED <<lessons, enrollments, lesson_progresses, certificates,
                   payments, cart_items, next_lesson_id, next_enrollment_id,
                   next_certificate_id, next_payment_id, next_cart_item_id,
                   now>>
    /\ UNCHANGED <<reqs, started, quizVars>>

\* a course of n lessons and a student who has just enrolled in it
InitStatus ==
    \E n \in 1..StatusLessons :
        /\ lessons = {[id |-> i, section |-> "c1a"] : i \in 1..n}
        /\ next_lesson_id = n + 1
        /\ enrollments = {NewEnrollment(1, "s1", "c1", "audit", 0)}
        /\ lesson_progresses = {}
        /\ certificates = {}
        /\ payments = {}
        /\ cart_items = {}
        /\ student_quiz_attempts = {}
        /\ next_attempt_id = 1
        /\ next_enrollment_id = 2
        /\ next_certificate_id = 1
        /\ next_payment_id = 1
        /\ next_cart_item_id = 1
        /\ now = 1
        /\ resp = NoResp
        /\ reqs = [w \in Workers |-> IdleReq]
        /\ started = 0

NextStatus ==
    \/ \E u \in Students, l \in 1..StatusLessons : CompleteLesson(u, l)
    \/ \E u \in Students, c \in CoreCourses : MyCourses(u, c)

SpecStatus == InitStatus /\ [][NextStatus]_vars

\* ==================================================================
\* Quizzes: start and submit (assessments/views.py)
\* ==================================================================
\* StudentQuizAttempt.objects.filter(student, quiz, status='in_progress')
InProgressOf(u, quiz) ==
    {a \in student_quiz_attempts :
        a.student = u /\ a.quiz = quiz /\ a.status = "in_progress"}

\* StudentQuizAttempt.objects.create(status='in_progress')
NewAttempt(id, u, quiz) ==
    [id |-> id, student |-> u, quiz |-> quiz, status |-> "in_progress",
     score |-> [num |-> 0, den |-> 1], answers |-> {}]

\* --------------------------------------------- POST quizzes/<id>/start/
QuizStart(u, quiz) ==
    /\ IF EnrollmentsOf(u, quizCourse(quiz)) = {}
       THEN /\ resp' = Response("quiz_start", u, quizCourse(quiz), 0, 403,
                                "You must enroll in this course first.")
            /\ UNCHANGED quizVars
       ELSE IF InProgressOf(u, quiz) # {}
       THEN /\ resp' = Response("quiz_start", u, quizCourse(quiz), 0, 200,
                                "")
            /\ UNCHANGED quizVars
       ELSE /\ next_attempt_id <= MaxAttempts
            /\ student_quiz_attempts' = student_quiz_attempts \cup
                  {NewAttempt(next_attempt_id, u, quiz)}
            /\ next_attempt_id' = next_attempt_id + 1
            /\ resp' = Response("quiz_start", u, quizCourse(quiz), 0, 201,
                                "")
    /\ UNCHANGED <<lessons, enrollments, lesson_progresses, certificates,
                   payments, cart_items, next_lesson_id, next_enrollment_id,
                   next_certificate_id, next_payment_id, next_cart_item_id,
                   now>>
    /\ UNCHANGED <<reqs, started>>

\* update_or_create(attempt, question, defaults={'selected_choice': ...})
UpsertAnswer(rows, q, ch) ==
    {r \in rows : r.question # q} \cup
        {[question |-> q, selected_choice |-> ch]}

\* views.py 312-337: the loop over the submitted answers from position k
\* on; acc carries correct_answers, obtained_points and the answer rows
RECURSIVE ScoreLoop(_, _, _, _)
ScoreLoop(quiz, answers_data, k, acc) ==
    IF k > Len(answers_data) THEN acc
    ELSE LET question_id == answers_data[k].question
             choice_id == answers_data[k].selected_choice
             found == /\ question_id # 0 /\ choice_id # 0
                      /\ question_id \in QuestionsOf(quiz)
                      /\ choice_id \in ChoicesOf(question_id)
         IN IF ~ found
            THEN ScoreLoop(quiz, answers_data, k + 1, acc)
            ELSE ScoreLoop(quiz, answers_data, k + 1,
                   [acc EXCEPT
                      !.answers = UpsertAnswer(@, question_id, choice_id),
                      !.correct_answers =
                          IF choiceIsCorrect(choice_id) THEN @ + 1 ELSE @,
                      !.obtained_points =
                          IF choiceIsCorrect(choice_id)
                          THEN @ + questionPoints(question_id) ELSE @])

RECURSIVE SumPoints(_)
SumPoints(qs) ==
    IF qs = {} THEN 0
    ELSE LET q == CHOOSE x \in qs : TRUE
         IN questionPoints(q) + SumPoints(qs \ {q})

\* views.py 340: obtained_points / total_points * 100, kept as the exact
\* fraction num / den; 0 when the quiz has no points
ScorePercentage(obtained_points, total_points) ==
    IF total_points > 0
    THEN [num |-> obtained_points * 100, den |-> total_points]
    ELSE [num |-> 0, den |-> 1]

\* -------------------------------------------- POST quizzes/<id>/submit/
QuizSubmit(u, quiz, answers_data) ==
    LET in_progress == InProgressOf(u, quiz)
        attempt == IF in_progress # {}
                   THEN CHOOSE a \in in_progress :
                           \A b \in in_progress : a.id >= b.id
                   ELSE NewAttempt(next_attempt_id, u, quiz)
        total_questions == Cardinality(QuestionsOf(quiz))
        total_points == SumPoints(QuestionsOf(quiz))
        out == ScoreLoop(quiz, answers_data, 1,
                 [answers |-> attempt.answers, correct_answers |-> 0,
                  obtained_points |-> 0])
        saved == [attempt EXCEPT
                    !.answers = out.answers,
                    !.score = ScorePercentage(out.obtained_points,
                                              total_points),
                    !.status = "completed"]
        enrolled == EnrollmentsOf(u, quizCourse(quiz)) # {}
    IN
    /\ (enrolled /\ in_progress = {}) => next_attempt_id <= MaxAttempts
    /\ IF ~ enrolled
       THEN /\ resp' = Response("quiz_submit", u, quizCourse(quiz), 0, 403,
                                "You must enroll in this course first.")
            /\ UNCHANGED quizVars
       ELSE /\ next_attempt_id' = IF in_progress = {}
                                  THEN next_attempt_id + 1
                                  ELSE next_attempt_id
            /\ IF answers_data = <<>>
               THEN \* the attempt was created before the serializer ran
                    /\ student_quiz_attempts' =
                          student_quiz_attempts \cup {attempt}
                    /\ resp' = Response("quiz_submit", u, quizCourse(quiz),
                                        0, 400, "Answers cannot be empty.")
               ELSE /\ student_quiz_attempts' =
                          (student_quiz_attempts \ {attempt}) \cup {saved}
                    /\ resp' = [Response("quiz_submit", u,
                                         quizCourse(quiz), 0, 200, "")
                          EXCEPT !.total_points = total_points,
                                 !.obtained_points = out.obtained_points,
                                 !.correct_answers = out.correct_answers,
                                 !.total_questions = total_questions]
    /\ UNCHANGED <<lessons, enrollments, lesson_progresses, certificates,
                   payments, cart_items, next_lesson_id, next_enrollment_id,
                   next_certificate_id, next_payment_id, next_cart_item_id,
                   now>>
    /\ UNCHANGED <<reqs, started>>

\* the answers a client can send: any question and choice id, 0 for a
\* missing one
AnswerValues ==
    [question : 0..(MaxQuestions + 1),
     selected_choice : 0..(2 * (MaxQuestions + 1))]

AnswerLists ==
    UNION {[1..n -> AnswerValues] : n \in 0..MaxAnswers}

NextQuiz ==
    \/ \E u \in Students, c \in CoreCourses : Enroll(u, c)
    \/ \E u \in Students, quiz \in Quizzes : QuizStart(u, quiz)
    \/ \E u \in Students, quiz \in Quizzes, answers_data \in AnswerLists :
          QuizSubmit(u, quiz, answers_data)

SpecQuiz == Init /\ [][NextQuiz]_vars

\* ==================================================================
\* Properties
\* ==================================================================

\* p = floor(k * 100 / N) for N > 0, and p = 0 for N = 0
IsFloorPercent(p, k, N) ==
    IF N = 0 THEN p = 0
    ELSE p * N <= k * 100 /\ k * 100 < (p + 1) * N

TotalOf(c) == Cardinality(LessonsOfCourse(c))
CompletedCountOf(e) == Cardinality(CompletedOf(e.id))
InSync(e) ==
    IsFloorPercent(e.progress_percent, CompletedCountOf(e), TotalOf(e.course))

\* C1: after every successful complete-lesson call the persisted
\* progress_percent of the caller's enrollment and the progress_percent in
\* the response both equal floor(k*100/N), N the number of lessons of the
\* lesson's course and k the number of completed LessonProgress rows of the
\* enrollment (0 when N = 0).
C1_PercentageCorrect ==
    (resp.op = "complete" /\ resp.status = 200) =>
        /\ EnrollmentsOf(resp.user, resp.course) # {}
        /\ \A e \in EnrollmentsOf(resp.user, resp.course) :
              /\ e.progress_percent = resp.progress_percent
              /\ InSync(e)

C1_Witness ==
    /\ resp.op = "complete" /\ resp.status = 200
    /\ TotalOf(resp.course) = 3
    /\ resp.progress_percent = 66
    /\ \E e \in EnrollmentsOf(resp.user, resp.course) :
          CompletedCountOf(e) = 2

\* what issue-certificate answers, given the state it leaves behind
C2_Outcome ==
    (resp.op = "issue" /\ role(resp.user) = "student") =>
        LET enr == EnrollmentsOf(resp.user, resp.course)
            issued == resp.status \in {200, 201}
        IN /\ (\A e \in enr : e.enrollment_type # "paid") =>
                 /\ resp.status = 400
                 /\ resp.detail = "Certificate only for paid enrollments."
                 /\ CertificatesOf(resp.user, resp.course) = {}
           /\ \A e \in enr :
                 /\ (/\ e.enrollment_type = "paid"
                     /\ CompletedCountOf(e) < TotalOf(e.course)
                     /\ resp.status # 200)
                       => /\ resp.status = 400
                          /\ CertificatesOf(resp.user, resp.course) = {}
                 /\ (/\ e.enrollment_type = "paid"
                     /\ TotalOf(e.course) > 0
                     /\ CompletedCountOf(e) >= TotalOf(e.course))
                       => /\ issued
                          /\ CertificatesOf(resp.user, resp.course) # {}

\* a Certificate row appears only for a paid enrollment of a course with at
\* least one lesson and completed >= total at that moment
C2_MintOnlyIfEligible ==
    \A k \in certificates' \ certificates :
        \E e \in enrollments :
            /\ e.id = k.enrollment
            /\ e.student = k.user /\ e.course = k.course
            /\ e.enrollment_type = "paid"
            /\ TotalOf(e.course) >= 1
            /\ CompletedCountOf(e) >= TotalOf(e.course)

\* C2: certificate gating: issue-certificate creates a Certificate only when
\* the caller holds a paid Enrollment for the course, the course has at
\* least one lesson and completed >= total; it fails for an audit enrollment
\* even with every lesson completed, fails for a paid enrollment with
\* completed < total and succeeds for a paid enrollment with all completed.
C2_CertificateGating == [][C2_MintOnlyIfEligible]_vars /\ []C2_Outcome

C2_Witness ==
    /\ resp.op = "issue" /\ resp.status = 201
    /\ TotalOf(resp.course) >= 2
    /\ \E k \in certificates : k.id = resp.certificate_id

\* C6: a complete-lesson call that directly follows a successful one for the
\* same (student, lesson) changes neither the LessonProgress rows (same row,
\* same completed_at) nor the enrollment's progress_percent, and still
\* answers completed = true with the same progress_percent.
C6_Step ==
    (/\ resp.op = "complete" /\ resp.status = 200
     /\ resp'.op = "complete"
     /\ resp'.user = resp.user /\ resp'.lesson = resp.lesson
     /\ resp' # resp)
        => /\ lesson_progresses' = lesson_progresses
           /\ enrollments' = enrollments
           /\ resp'.status = 200 /\ resp'.completed
           /\ resp'.progress_percent = resp.progress_percent

C6_CompletionIdempotent == [][C6_Step]_vars

C6_Witness ==
    /\ resp.op = "complete" /\ resp.status = 200 /\ resp.was_completed
    /\ \E lp \in lesson_progresses :
          /\ lp.lesson = resp.lesson /\ lp.is_completed
          /\ lp.completed_at < now - 1

\* C7: for a fixed enrollment, while the lesson set of its course is
\* unchanged, progress_percent never decreases from one complete-lesson call
\* to the next: a step that leaves the lessons alone and starts with the
\* cached percent equal to the derived one (as every complete-lesson call
\* leaves it) keeps it equal to the derived one and does not lower it.
C7_Step ==
    \A e \in enrollments :
        (LessonsOfCourse(e.course)' = LessonsOfCourse(e.course) /\ InSync(e))
            => \A f \in enrollments' :
                  f.id = e.id =>
                      /\ f.progress_percent >= e.progress_percent
                      /\ InSync(f)'

C7_ProgressMonotone == [][C7_Step]_vars

C7_Witness ==
    /\ resp.op = "complete" /\ resp.status = 200
    /\ \E e \in EnrollmentsOf(resp.user, resp.course) :
          /\ e.progress_percent = 100
          /\ CompletedCountOf(e) = 3

\* C10: purchase with no existing enrollment: mode audit creates exactly one
\* Enrollment (audit, price_paid 0, progress_percent 0) and no Payment; mode
\* paid creates exactly one Enrollment (paid, price_paid = course price) and
\* exactly one Payment (source single, amount = price_paid) linked to it.
C10_Step ==
    (/\ resp'.op = "purchase"
     /\ role(resp'.user) = "student"
     /\ courseTeacher(resp'.course) # resp'.user
     /\ EnrollmentsOf(resp'.user, resp'.course) = {})
        => LET new == enrollments' \ enrollments
               paid == payments' \ payments
           IN /\ enrollments \subseteq enrollments'
              /\ payments \subseteq payments'
              /\ Cardinality(new) = 1
              /\ \A e \in new :
                    /\ e.student = resp'.user /\ e.course = resp'.course
                    /\ e.progress_percent = 0
                    /\ e.enrollment_type = resp'.mode
                    /\ resp'.mode = "audit" =>
                          e.price_paid = 0 /\ paid = {}
                    /\ resp'.mode = "paid" =>
                          /\ e.price_paid = coursePrice(e.course)
                          /\ Cardinality(paid) = 1
                          /\ \A p \in paid :
                                /\ p.source = "single"
                                /\ p.amount = e.price_paid
                                /\ p.enrollment = e.id
                                /\ p.user = e.student
                                /\ p.course = e.course

C10_PurchaseCreates == [][C10_Step]_vars

C10_Witness ==
    /\ resp.op = "purchase" /\ resp.mode = "paid" /\ resp.status = 201
    /\ \E e \in EnrollmentsOf(resp.user, resp.course) :
          /\ e.price_paid = 10
          /\ \E p \in payments : p.enrollment = e.id /\ p.source = "single"

\* ------------------------------------------------------------------
\* Properties of the concurrent handlers

AllReturned == \A w \in Workers : reqs[w].pc = "idle"

\* C3: in every state reachable by any interleaving of issue-certificate,
\* purchase, enroll, complete-lesson and cart-checkout calls there is at
\* most one Certificate row for each (student, course) pair.
C3_CertificateUnique ==
    \A u \in Users, c \in Courses : Cardinality(CertificatesOf(u, c)) <= 1

\* a second issuance raced the first and its insert was refused
C3_Witness ==
    /\ resp.op = "issue" /\ resp.status = 500
    /\ Cardinality(CertificatesOf(resp.user, resp.course)) = 1

\* C4: whenever a Certificate already exists for (student, course), an
\* issue-certificate call by that student answers with success and the
\* existing certificate's id and code, creates no Certificate and changes no
\* other row, whatever the enrollment's current state: stated for the steps
\* at which the call can return before or at its existence check.
C4_Step ==
    \A w \in Workers :
        LET r == reqs[w]
            u == resp'.user
            c == resp'.course
            returns == /\ reqs'[w].pc = "idle"
                       /\ resp'.op = "issue"
                       /\ \/ r.pc = "idle" /\ started' = started + 1
                          \/ r.op = "issue" /\ r.pc = "check_existing"
        IN (returns /\ role(u) = "student" /\ CertificatesOf(u, c) # {})
              => /\ resp'.status = 200
                 /\ \E k \in CertificatesOf(u, c) :
                       /\ resp'.certificate_id = k.id
                       /\ resp'.certificate_code = k.certificate_code
                 /\ certificates' = certificates
                 /\ enrollments' = enrollments
                 /\ lesson_progresses' = lesson_progresses
                 /\ payments' = payments

C4_ReissueIdempotent == [][C4_Step]_vars

\* one Enrollment row per pair
C5_Unique ==
    \A u \in Users, c \in Courses : Cardinality(EnrollmentsOf(u, c)) <= 1

\* rows stay the rows of their pair, and a row is inserted only for a pair
\* that has none
C5_Step ==
    /\ \A e \in enrollments :
          \E f \in enrollments' :
              f.id = e.id /\ f.student = e.student /\ f.course = e.course
    /\ \A f \in enrollments' :
          (\A e \in enrollments : e.id # f.id)
              => EnrollmentsOf(f.student, f.course) = {}

\* C5: no interleaving of enroll, purchase (audit or paid), upgrade and
\* cart-checkout calls produces a second Enrollment row for a (student,
\* course) pair that has one; each of them either mutates the single
\* existing row in place or leaves it untouched.
C5_OneEnrollment == [][C5_Step]_vars /\ []C5_Unique

\* two purchases raced for the first row and the second insert was refused
C5_Witness ==
    /\ resp.op = "purchase" /\ resp.status = 500
    /\ Cardinality(EnrollmentsOf(resp.user, resp.course)) = 1

\* C8: once all concurrent complete-lesson requests of an enrollment have
\* returned, its persisted progress_percent equals floor(k*100/N) for the
\* final number k of completed LessonProgress rows.
C8_NoStaleProgress ==
    AllReturned => \A e \in enrollments : InSync(e)

\* C9: a single Enrollment never has more than one succeeded Payment of
\* source single or upgrade, over any interleaving of purchase requests.
C9_NoDoubleCharge ==
    \A e \in enrollments :
        Cardinality({p \in payments :
                        /\ p.enrollment = e.id
                        /\ p.status = "succeeded"
                        /\ p.source \in {"single", "upgrade"}}) <= 1

\* ------------------------------------------------------------------
\* The purchase decision table

\* a request of the sequential handlers that got past the role and owner
\* checks of purchase
PurchaseAttempt ==
    /\ resp'.op = "purchase"
    /\ role(resp'.user) = "student"
    /\ courseTeacher(resp'.course) # resp'.user

StoreUnchanged ==
    UNCHANGED <<lessons, enrollments, lesson_progresses, certificates,
                payments, cart_items>>

\* C11: a paid purchase by a student holding an audit enrollment sets
\* enrollment_type = paid and price_paid = course price on that same row and
\* records one Payment tagged upgrade; id, created_at, progress_percent,
\* granted_certificate and the LessonProgress rows are unchanged and the
\* pair keeps one Enrollment row.
C11_Step ==
    (PurchaseAttempt /\ resp'.mode = "paid")
        => \A e \in EnrollmentsOf(resp'.user, resp'.course) :
              e.enrollment_type = "audit" =>
                 LET new == payments' \ payments IN
                 /\ enrollments' = (enrollments \ {e}) \cup
                       {[id |-> e.id, student |-> e.student,
                         course |-> e.course, enrollment_type |-> "paid",
                         price_paid |-> coursePrice(e.course),
                         progress_percent |-> e.progress_percent,
                         granted_certificate |-> e.granted_certificate,
                         created_at |-> e.created_at]}
                 /\ Cardinality({f \in enrollments' :
                        f.student = e.student /\ f.course = e.course}) = 1
                 /\ payments \subseteq payments'
                 /\ Cardinality(new) = 1
                 /\ \A p \in new :
                       /\ p.source = "upgrade" /\ p.enrollment = e.id
                       /\ p.amount = coursePrice(e.course)
                       /\ p.status = "succeeded"
                 /\ UNCHANGED <<lesson_progresses, certificates, lessons>>
                 /\ resp'.status = 200

C11_UpgradeInPlace == [][C11_Step]_vars

C11_Witness ==
    /\ resp.op = "purchase" /\ resp.detail = "Upgraded to paid enrollment"
    /\ \E e \in EnrollmentsOf(resp.user, resp.course) :
          /\ e.enrollment_type = "paid" /\ e.price_paid = 10
          /\ e.progress_percent > 0
          /\ CompletedOf(e.id) # {}
          /\ \E p \in payments : p.enrollment = e.id /\ p.source = "upgrade"

\* C12: a purchase (mode audit or paid) by a student who already holds a
\* paid enrollment answers 'Already purchased' as a success and changes no
\* row of any table.
C12_Step ==
    (/\ PurchaseAttempt
     /\ \E e \in EnrollmentsOf(resp'.user, resp'.course) :
           e.enrollment_type = "paid")
        => /\ resp'.status = 200
           /\ resp'.detail = "Already purchased"
           /\ StoreUnchanged

C12_AlreadyPurchased == [][C12_Step]_vars

C12_Witness ==
    /\ resp.op = "purchase" /\ resp.mode = "audit"
    /\ resp.detail = "Already purchased"
    /\ \E e \in EnrollmentsOf(resp.user, resp.course) :
          /\ e.enrollment_type = "paid" /\ e.price_paid = 10
          /\ Cardinality({p \in payments : p.enrollment = e.id}) = 1

\* C13: a purchase with mode audit by a student who already holds an audit
\* enrollment changes no stored row and is answered as a success with the
\* 'already enrolled' outcome, not with a generic invalid-state error.
C13_Step ==
    (/\ PurchaseAttempt /\ resp'.mode = "audit"
     /\ \E e \in EnrollmentsOf(resp'.user, resp'.course) :
           e.enrollment_type = "audit")
        => /\ StoreUnchanged
           /\ resp'.status \in 200..299
           /\ resp'.detail # "Invalid enrollment state."

C13_AuditOnAudit == [][C13_Step]_vars

\* ------------------------------------------------------------------
\* Ownership

\* C14: in every reachable state no Enrollment row has the teacher (owner)
\* of its course as its student: enroll, purchase, cart add and cart
\* checkout all reject the course owner.
C14_NoOwnerEnrollment ==
    \A e \in enrollments : courseTeacher(e.course) # e.student

\* ------------------------------------------------------------------
\* Refusals

\* an issue-certificate request by a student
IssueAttempt == resp'.op = "issue" /\ role(resp'.user) = "student"

Refused(detail) ==
    /\ resp'.status = 400
    /\ resp'.detail = detail
    /\ StoreUnchanged

\* C15: issue-certificate answers 'not a paid enrollment' (no enrollment or
\* an audit one), 'course has no lessons' (total = 0) and 'course not
\* completed' (0 < total, completed < total) as three different reasons,
\* each fixed by the condition that failed, and each time creates no
\* Certificate and changes no row; no Certificate is ever created for a
\* course without lessons.
C15_Step ==
    /\ IssueAttempt =>
          LET u == resp'.user
              c == resp'.course
              paid == {e \in EnrollmentsOf(u, c) : e.enrollment_type = "paid"}
          IN /\ paid = {} =>
                   Refused("Certificate only for paid enrollments.")
             /\ (paid # {} /\ CertificatesOf(u, c) = {}) =>
                   /\ TotalOf(c) = 0 => Refused("Course has no lessons.")
                   /\ (/\ TotalOf(c) > 0
                       /\ \E e \in paid : CompletedCountOf(e) < TotalOf(c))
                         => Refused("Course not completed yet.")
    /\ \A k \in certificates' \ certificates : TotalOf(k.course) > 0

C15_DistinctFailures == [][C15_Step]_vars

C15_Witness ==
    /\ resp.op = "issue" /\ resp.status = 400
    /\ resp.detail = "Course has no lessons."
    /\ TotalOf(resp.course) = 0
    /\ certificates = {}
    /\ \E e \in EnrollmentsOf(resp.user, resp.course) :
          e.enrollment_type = "paid" /\ ~ e.granted_certificate

\* C16: a complete-lesson call for an existing lesson by a user without an
\* Enrollment for the lesson's course answers 'must enroll first' and
\* creates no Enrollment and no LessonProgress row; a call for a lesson that
\* does not exist answers NotFound; both leave all stored state unchanged.
C16_Step ==
    resp'.op = "complete" =>
        LET found == {x \in lessons : x.id = resp'.lesson} IN
        /\ found = {} => (resp'.status = 404 /\ StoreUnchanged)
        /\ \A x \in found :
              EnrollmentsOf(resp'.user, sectionCourse(x.section)) = {}
                 => Refused("You must enroll in this course first.")

C17_StampMatches ==
    \A lp \in lesson_progresses : (lp.completed_at = 0) <=> ~ lp.is_completed

\* a completed row stays completed and keeps its completed_at
C17_Step ==
    \A lp \in lesson_progresses :
        lp.is_completed =>
           \A q \in lesson_progresses' :
              (q.enrollment = lp.enrollment /\ q.lesson = lp.lesson)
                 => q.is_completed /\ q.completed_at = lp.completed_at

\* C17: for every LessonProgress row, over any interleaving of
\* complete-lesson calls, is_completed never returns to false, completed_at
\* is null exactly while is_completed is false, and completed_at is written
\* once: its value never changes after the transition to completed.
C17_StampedOnce == [][C17_Step]_vars /\ []C17_StampMatches

\* the worker whose complete-lesson request takes the step
CompleteStepOf(w) == reqs[w].op = "complete" /\ reqs'[w] # reqs[w]

\* C18: a complete-lesson call changes at most the (enrollment, lesson)
\* LessonProgress row and the progress_percent of that one enrollment: it
\* creates no Certificate and no Payment and leaves enrollment_type,
\* price_paid and granted_certificate of the enrollment, and every other
\* enrollment's rows, as they are in the store when it writes.
C18_Step ==
    \A w \in Workers :
        CompleteStepOf(w) =>
           LET r == reqs[w] IN
           /\ UNCHANGED <<certificates, payments, lessons, cart_items>>
           /\ \A lp \in lesson_progresses :
                 (lp.enrollment # r.enrollment.id \/ lp.lesson # r.lesson)
                    => lp \in lesson_progresses'
           /\ \A lp \in lesson_progresses' \ lesson_progresses :
                 lp.enrollment = r.enrollment.id /\ lp.lesson = r.lesson
           /\ \A e \in enrollments :
                 \E f \in enrollments' :
                    /\ f.id = e.id
                    /\ f.enrollment_type = e.enrollment_type
                    /\ f.price_paid = e.price_paid
                    /\ f.granted_certificate = e.granted_certificate
                    /\ e.id # r.enrollment.id => f = e
           /\ Cardinality(enrollments') = Cardinality(enrollments)

C18_CompleteFrame == [][C18_Step]_vars

\* C20: when two issue-certificate requests for the same eligible pair have
\* both passed the 'certificate already exists' check, the insert of each
\* leaves exactly one Certificate row for the pair and the request goes on
\* to answer with that certificate as a success, not with an unhandled
\* failure.
C20_Step ==
    \A w \in Workers :
        (reqs[w].op = "issue" /\ reqs[w].pc = "create"
                              /\ reqs'[w] # reqs[w])
           => /\ Cardinality({k \in certificates' :
                      /\ k.user = reqs[w].user
                      /\ k.course = reqs[w].course}) = 1
              /\ \/ reqs'[w].pc = "grant"
                 \/ /\ reqs'[w].pc = "idle"
                    /\ resp'.status \in {200, 201}
                    /\ \E k \in certificates' :
                          resp'.certificate_code = k.certificate_code

C20_ConcurrentIssuance == [][C20_Step]_vars

\* C19: once a Certificate exists for (user, course) it exists with the same
\* certificate_code in every later state: no operation, removing the
\* student from the course and re-enrolling included, takes the pair back
\* to NoCertificate or replaces the code.
C19_Step ==
    \A k \in certificates :
        \E k2 \in certificates' :
            /\ k2.user = k.user /\ k2.course = k.course
            /\ k2.certificate_code = k.certificate_code

C19_NeverRevoked == [][C19_Step]_vars

\* C21: a purchase, issue-certificate or complete-lesson request that ends
\* in a failure leaves none of its own writes behind: the enrollment it
\* wrote is not paid without a Payment, the certificate it created is not
\* without granted_certificate, the lesson it completed is not without the
\* recomputed percentage.
FailsNow(w, op) ==
    /\ reqs[w].op = op
    /\ reqs'[w].pc = "idle"
    /\ resp'.status >= 400

C21_Step ==
    \A w \in Workers :
        /\ FailsNow(w, "purchase") =>
              \A e \in enrollments' :
                  (e.id = reqs[w].enrollment.id
                     /\ e.enrollment_type = "paid")
                  => \E p \in payments' : p.enrollment = e.id
        /\ FailsNow(w, "issue") =>
              \A k \in certificates' :
                  (k.id = reqs[w].n) =>
                     \E e \in enrollments' :
                         e.id = k.enrollment /\ e.granted_certificate
        /\ FailsNow(w, "complete") =>
              \A lp \in lesson_progresses' :
                  (lp.enrollment = reqs[w].enrollment.id
                     /\ lp.lesson = reqs[w].lesson)
                  => ~ lp.is_completed

C21_NoPartialMutation == [][C21_Step]_vars

\* C22: in every reachable state every enrollment has
\* 0 <= progress_percent <= 100, the teacher creating, deleting and moving
\* lessons included.
C22_PercentInRange ==
    \A e \in enrollments :
        e.progress_percent >= 0 /\ e.progress_percent <= 100

\* the percentage of enrollment e against the given tables
InSyncIn(e, progresses, catalog) ==
    IsFloorPercent(e.progress_percent,
        Cardinality({lp \in progresses :
                        lp.enrollment = e.id /\ lp.is_completed}),
        Cardinality({l \in catalog : sectionCourse(l.section) = e.course}))

\* C23: every successful complete-lesson call, the one for an already
\* completed lesson included, persists the recomputed percentage: after it
\* the caller's enrollment holds floor(completed*100/total), whatever it
\* held before (a value that had drifted because lessons were added or
\* deleted since), and the response reports that value.
C23_Step ==
    \A e \in enrollments :
        (/\ resp'.op = "complete" /\ resp'.status = 200
         /\ resp'.user = e.student /\ resp'.course = e.course)
        => \E f \in enrollments' :
              /\ f.id = e.id
              /\ InSyncIn(f, lesson_progresses', lessons')
              /\ f.progress_percent = resp'.progress_percent

C23_SelfHealing == [][C23_Step]_vars

\* the idempotent path was taken after the course grew to two lessons: the
\* one lesson completed before is re-sent and the enrollment holds 50
C23_Witness ==
    /\ resp.op = "complete" /\ resp.status = 200 /\ resp.was_completed
    /\ resp.progress_percent = 50
    /\ TotalOf(resp.course) = 2
    /\ now = 2
    /\ \E e \in EnrollmentsOf(resp.user, resp.course) :
          /\ CompletedCountOf(e) = 1
          /\ e.progress_percent = 50

\* C24: in a course of four lessons the k-th lesson a student completes is
\* answered with progress_percent 25*k (25, 50, 75, 100 in that order);
\* issue-certificate on the audit enrollment is refused with the not-paid
\* reason whatever the progress; the upgrade to paid keeps the progress;
\* issue-certificate on the paid, fully completed enrollment creates the
\* certificate and returns its code; a further call returns the same code
\* and creates nothing.
C24_Step ==
    \A e \in enrollments :
        LET issue == /\ resp'.op = "issue"
                     /\ resp'.user = e.student /\ resp'.course = e.course
            done == \A l \in 1..4 :
                       \E lp \in lesson_progresses :
                          /\ lp.enrollment = e.id /\ lp.lesson = l
                          /\ lp.is_completed
        IN
        /\ (/\ resp'.op = "complete" /\ resp'.status = 200
            /\ resp'.user = e.student /\ ~ resp'.was_completed)
           => /\ resp'.progress_percent = 25 * now
              /\ \E f \in enrollments' :
                    f.id = e.id /\ f.progress_percent = 25 * now
        /\ (issue /\ e.enrollment_type = "audit")
           => /\ resp'.status = 400
              /\ resp'.detail = "Certificate only for paid enrollments."
              /\ certificates' = certificates
        /\ (/\ resp'.op = "purchase" /\ resp'.mode = "paid"
            /\ resp'.user = e.student /\ resp'.course = e.course
            /\ e.enrollment_type = "audit")
           => \E f \in enrollments' :
                 /\ f.id = e.id /\ f.enrollment_type = "paid"
                 /\ f.progress_percent = e.progress_percent
        /\ (issue /\ e.enrollment_type = "paid" /\ done
                  /\ certificates = {})
           => /\ resp'.status = 201
              /\ \E k \in certificates' :
                    /\ certificates' = {k}
                    /\ k.user = e.student /\ k.course = e.course
                    /\ k.certificate_code = resp'.certificate_code
        /\ (issue /\ e.enrollment_type = "paid" /\ certificates # {})
           => /\ resp'.status = 200
              /\ certificates' = certificates
              /\ \E k \in certificates :
                    k.certificate_code = resp'.certificate_code

C24_Scenario == [][C24_Step]_vars

\* the end of the scenario: the lessons were completed in the order 1..4,
\* the enrollment was upgraded, and the repeated issue-certificate call
\* has answered with the code of the one certificate
C24_Witness ==
    /\ resp.op = "issue" /\ resp.status = 200
    /\ \E k \in certificates :
          certificates = {k} /\ k.certificate_code = resp.certificate_code
    /\ \E e \in enrollments :
          /\ e.enrollment_type = "paid" /\ e.progress_percent = 100
          /\ e.granted_certificate
          /\ \A l \in 1..4 :
                \E lp \in lesson_progresses :
                   /\ lp.enrollment = e.id /\ lp.lesson = l
                   /\ lp.is_completed /\ lp.completed_at = l
          /\ \E p \in payments :
                p.enrollment = e.id /\ p.source = "upgrade"

\* C25: an enrollment that is paid stays paid, with the same price_paid,
\* in every later state, whatever purchase, complete-lesson and
\* issue-certificate requests run and however their steps interleave.
C25_Step ==
    \A e \in enrollments :
        e.enrollment_type = "paid" =>
            \E f \in enrollments' :
                /\ f.id = e.id
                /\ f.enrollment_type = "paid"
                /\ f.price_paid = e.price_paid

C25_PaidAbsorbing == [][C25_Step]_vars

\* C26: whenever no request is in progress, an enrollment has
\* granted_certificate set exactly when a Certificate row references it, and
\* every Certificate references an enrollment of its user and course that
\* is paid.
C26_GrantedMirrorsCertificates ==
    (\A w \in Workers : reqs[w].pc = "idle") =>
        /\ \A e \in enrollments :
              e.granted_certificate <=>
                 \E k \in certificates : k.enrollment = e.id
        /\ \A k \in certificates :
              \E e \in enrollments :
                 /\ e.id = k.enrollment
                 /\ e.student = k.user /\ e.course = k.course
                 /\ e.enrollment_type = "paid"

\* the members of a sequence
Range(seq) == {seq[j] : j \in 1..Len(seq)}

\* C27: a cart checkout never fails on a cart built with cart-add: it
\* answers 'Checkout completed.' (or one of its two refusals, wrong role or
\* nothing to check out), and then every item it took from the cart is
\* either reported in enrolled_courses, the student holding exactly one
\* enrollment for the course, paid at price_at_add with a Payment of source
\* cart, or reported in already_owned_courses.
C27_Step ==
    resp'.op = "cart_checkout" =>
        /\ resp'.status \in {200, 400, 403}
        /\ resp'.status # 200 => StoreUnchanged
        /\ resp'.status = 200 =>
              /\ cart_items' \subseteq cart_items
              /\ cart_items' # cart_items
              /\ \A i \in cart_items \ cart_items' :
                    \/ /\ i.course \in Range(resp'.enrolled_courses)
                       /\ \E e \in enrollments' :
                             /\ e.student = i.user /\ e.course = i.course
                             /\ e.enrollment_type = "paid"
                             /\ e.price_paid = i.price_at_add
                             /\ \A f \in enrollments' :
                                   (f.student = i.user
                                      /\ f.course = i.course) => f = e
                             /\ \E p \in payments' :
                                   /\ p.enrollment = e.id
                                   /\ p.source = "cart"
                    \/ i.course \in Range(resp'.already_owned_courses)

C27_CheckoutCompletes == [][C27_Step]_vars

\* C28: a successful remove-student by the course's teacher deletes the
\* one enrollment of the pair with its LessonProgress rows and its
\* certificate, and keeps every Payment, detached from the enrollment; a
\* caller who is not the course's teacher is refused and nothing changes;
\* a complete-lesson by a student without an enrollment is refused with
\* 'You must enroll in this course first.'; and an enrollment created
\* afterwards starts with progress_percent 0 and no LessonProgress row.
C28_Step ==
    /\ resp'.op = "remove_student" =>
          /\ courseTeacher(resp'.course) # resp'.user
                => resp'.status = 403
          /\ resp'.status # 200 => StoreUnchanged
          /\ resp'.status = 200 =>
                \E e \in enrollments :
                   /\ e.course = resp'.course
                   /\ enrollments' = enrollments \ {e}
                   /\ ~ \E f \in enrollments' :
                          f.student = e.student /\ f.course = e.course
                   /\ ~ \E lp \in lesson_progresses' : lp.enrollment = e.id
                   /\ \A lp \in lesson_progresses :
                         lp.enrollment # e.id => lp \in lesson_progresses'
                   /\ ~ \E k \in certificates' :
                          k.user = e.student /\ k.course = e.course
                   /\ \A p \in payments :
                         \E q \in payments' :
                            /\ q.id = p.id /\ q.user = p.user
                            /\ q.course = p.course /\ q.amount = p.amount
                            /\ q.source = p.source
                            /\ q.enrollment # e.id
                   /\ Cardinality(payments') = Cardinality(payments)
    /\ (/\ resp'.op = "complete" /\ resp'.course # None
        /\ EnrollmentsOf(resp'.user, resp'.course) = {})
       => /\ resp'.status = 400
          /\ resp'.detail = "You must enroll in this course first."
          /\ StoreUnchanged
    /\ (resp'.op = "enroll" /\ resp'.status = 201)
       => \E f \in enrollments' :
             /\ enrollments' = enrollments \cup {f}
             /\ f \notin enrollments
             /\ f.student = resp'.user /\ f.course = resp'.course
             /\ f.progress_percent = 0
             /\ ~ \E lp \in lesson_progresses' : lp.enrollment = f.id

C28_RemoveStudentClears == [][C28_Step]_vars

\* the student had bought the course, completed a lesson and received a
\* certificate, and has just been removed by the teacher
C28_Witness ==
    /\ resp.op = "remove_student" /\ resp.status = 200
    /\ enrollments = {} /\ lesson_progresses = {} /\ certificates = {}
    /\ next_certificate_id = 2 /\ now = 2
    /\ \E p \in payments : p.enrollment = 0 /\ p.amount = 10

\* C29: the course list shows an enrollment as 'completed' (cached
\* progress_percent >= 100) exactly when the completion test of
\* issue-certificate passes for the counts the percentage was computed
\* from (completed >= total, total > 0): truncation never gives 100 for
\* fewer completed lessons than the course has.
C29_ShownCompleteIffEligible ==
    (resp.op = "my_courses" /\ resp.detail # "") =>
        \A e \in EnrollmentsOf(resp.user, resp.course) :
            /\ InSync(e)
            /\ TotalOf(e.course) > 0
            /\ CompletedCountOf(e) <= TotalOf(e.course)
            /\ (resp.detail = "completed") <=>
                  (EligibilityFailure(TotalOf(e.course),
                                      CompletedCountOf(e)) = "")
            /\ (e.progress_percent >= 100) <=>
                  (CompletedCountOf(e) >= TotalOf(e.course))

\* one lesson short of a course of at least five lessons: shown as in
\* progress, with a percentage of 80 or more
C29_Witness ==
    /\ resp.op = "my_courses" /\ resp.detail = "in_progress"
    /\ resp.progress_percent >= 80
    /\ \E e \in EnrollmentsOf(resp.user, resp.course) :
          /\ TotalOf(e.course) >= 5
          /\ CompletedCountOf(e) = TotalOf(e.course) - 1

\* C30: whatever answers a quiz submission carries, the response has
\* obtained_points <= total_points and correct_answers <= total_questions,
\* and the score stored on every attempt is between 0 and 100 percent, 0
\* for a quiz without points.
C30_ScoreBound ==
    /\ (resp.op = "quiz_submit" /\ resp.status = 200) =>
          /\ resp.obtained_points <= resp.total_points
          /\ resp.correct_answers <= resp.total_questions
    /\ \A a \in student_quiz_attempts :
          /\ a.score.num >= 0
          /\ a.score.num <= 100 * a.score.den
          /\ SumPoints(QuestionsOf(a.quiz)) = 0 => a.score.num = 0

====
